---- MODULE Spec2Model ----
(***************************************************************************)
(* A model of wavexp: the sequencer's event pump (src/src/sound.rs) and    *)
(* the sorted-slice helpers of wavexp-utils                                *)
(* (src/packages/wavexp-utils/src/lib.rs).                                 *)
(*                                                                         *)
(* Units.  The clock (ctx.now, ctx.play_since, Secs) is counted in tenths  *)
(* of a second and musical time (Beats, every `when`) in tenths of a beat, *)
(* so that secs_to_beats(x, bps) = x * bps stays the code's formula on     *)
(* integers.                                                               *)
(*                                                                         *)
(* Environment.  Under Spec every call into the Web Audio API returns Ok   *)
(* (the `?` after create_oscillator, create_gain, connect, disconnect, ... *)
(* takes its Ok branch); the failure the program raises by itself,         *)
(* js_error("invalid event"), is modelled.  The persistent ctx.play_since  *)
(* is the value the first Frame of a play writes (sound.rs:857).           *)
(***************************************************************************)
EXTENDS Integers, Sequences, FiniteSets, TLC

\* ------------------------------------------------------------------ bounds
\* the clock runs from 0 to MaxTime (tenths of a second)
MaxTime == 5
\* StartPlay is handled at most MaxPlays times
MaxPlays == 2
\* StopPlay is handled at most MaxStops times
MaxStops == 2
\* ctx.bps, beats per second
BPS == 2
\* the longest slice of the slice helpers' state machine
MaxLen == 3
\* the offsets a point of that slice takes are 0 .. MaxKey
MaxKey == 2
\* the values of a usize are 0 .. USIZE - 1: the 32 bits of wasm32 are
\* narrowed to 16, far above every index of a slice of MaxLen points
USIZE == 65536

\* ------------------------------------------------------- program constants
\* Sound::new(SoundType::Note): release: r64![0.2] beats
DefaultRelease == 2
\* Sound::poll: r64![0.1].secs_to_beats(ctx.bps), in tenths of a second
EndDelay == 1

VARIABLES
    pattern,        \* Sequencer.pattern: the SoundBlocks, sorted by offset
    pending,        \* Sequencer.pending: Vec<SoundEvent>
    playing,        \* Sequencer.playing
    used_to_play,   \* Sequencer.used_to_play
    plug,           \* Sequencer.plug: the id of the compressor node
    linked,         \* the plugs connected to Sequencer.gain (the output chain)
    conns,          \* the connections node -> plug made by poll and not undone
    now,            \* ctx.now
    play_since,     \* ctx.play_since
    nPlays,         \* the StartPlay events handled so far
    nextNode,       \* the audio nodes created so far
    lastEv,         \* the event handled last
    frNow,          \* `now` (beats) of the Frame handled last
    frBefore,       \* `pending` as the Frame handled last found it
    frPolled,       \* the events polled by the Frame handled last, in order
    frDue,          \* the events the Frame handled last handed to due_now
    frErr,          \* the Frame handled last returned Err
    prevPlug,       \* Sequencer.plug before the StopPlay handled last
    ub,             \* an unchecked access read past the end of a pattern
    data,           \* a sorted slice of points (GraphEditor.data)
    dirty,          \* the index whose offset was changed in place, or -1
    mv,             \* the SliceMove returned last
    ids,            \* all old indices after SliceMove::apply
    op,             \* the slice operation applied last
    prevData,       \* `data` before that operation
    arg             \* the value that operation was given

seqVars == <<pattern, pending, playing, used_to_play, plug, linked, conns, now,
             play_since, nPlays, nextNode, lastEv, frNow, frBefore, frPolled,
             frDue, frErr, prevPlug, ub>>
sliceVars == <<data, dirty, mv, ids, op, prevData, arg>>

VARIABLES
    blockSound,     \* a block's Sound (packages/wavexp/src/sound/mod.rs)
    done,           \* the action history: the actions registered and not undone
    undone,         \* the action history: the actions undone and not redone
    edLast          \* the step of the editor taken last, and its history entry

editVars == <<blockSound, done, undone, edLast>>

VARIABLES
    popups,         \* App.popups: the stack of pop-ups, the top last
    popDone,        \* the history: the pop-up actions registered, not undone
    popUndone,      \* the history: the pop-up actions undone, not redone
    popLast         \* the event App::update handled last

popupVars == <<popups, popDone, popUndone, popLast>>

VARIABLES
    input,          \* an AudioInput
    bakeLast        \* the outcome of the call on the AudioInput made last

inputVars == <<input, bakeLast>>

VARIABLES
    noteCalc,       \* the call on a Note (sound/mod.rs) made last, its result
    oldNote         \* a Note of src/src/sound.rs and the call that made it

noteVars == <<noteCalc, oldNote>>

VARIABLES
    player          \* a NoteSound, the arguments of play and what play did

playVars == <<player>>
\* ---- state of the further machines
VARIABLES
    custom, \* a CustomSound, the arguments of play and what play did
    app, \* the App and Main components, the error indicator and the last callback
    moved, \* a NoteBlock, what it was before the last call of its move and the call
    editor, \* the focus of the editor plane, of the Main component and the pointer
    view, \* what a redraw of the nested pattern editor sees and what it did
    replay, \* a Note or Custom sound, the selected tab, its pattern editor and the last event
    borrow, \* a slice's length, the ids asked of it and what get_var returned, while held
    ranges, \* two half-open ranges and what overlap said of them last
    nth, \* an EveryNth or EveryNthMut over a slice, what it has yielded and whether it has ended
    cblock, \* a CustomBlock of a pattern
    blockIds, \* for each SoundBlock of Sequencer.pattern, in order, the number it was created with
    bakeLen \* the buffer length the call of bake made last has computed, if it has

restVars == <<custom, app, moved, editor, view, replay, borrow, ranges, nth, cblock, blockIds, bakeLen>>

\* what the CustomSound machine leaves alone
except_custom ==
    <<seqVars, sliceVars, editVars, popupVars, inputVars, noteVars, playVars, app, moved, editor, view, replay, borrow, ranges, nth, cblock, blockIds, bakeLen>>

\* what the top-level callbacks leaves alone
except_app ==
    <<seqVars, sliceVars, editVars, popupVars, inputVars, noteVars, playVars, custom, moved, editor, view, replay, borrow, ranges, nth, cblock, blockIds, bakeLen>>

\* what the NoteBlock mover leaves alone
except_moved ==
    <<seqVars, sliceVars, editVars, popupVars, inputVars, noteVars, playVars, custom, app, editor, view, replay, borrow, ranges, nth, cblock, blockIds, bakeLen>>

\* what the pointer handlers leaves alone
except_editor ==
    <<seqVars, sliceVars, editVars, popupVars, inputVars, noteVars, playVars, custom, app, moved, view, replay, borrow, ranges, nth, cblock, blockIds, bakeLen>>

\* what the pattern editor redraw leaves alone
except_view ==
    <<seqVars, sliceVars, editVars, popupVars, inputVars, noteVars, playVars, custom, app, moved, editor, replay, borrow, ranges, nth, cblock, blockIds, bakeLen>>

\* what the undo/redo replay leaves alone
except_replay ==
    <<seqVars, sliceVars, editVars, popupVars, inputVars, noteVars, playVars, custom, app, moved, editor, view, borrow, ranges, nth, cblock, blockIds, bakeLen>>

\* what the get_var callers leaves alone
except_borrow ==
    <<seqVars, sliceVars, editVars, popupVars, inputVars, noteVars, playVars, custom, app, moved, editor, view, replay, ranges, nth, cblock, blockIds, bakeLen>>

\* what the RangeExt callers leaves alone
except_ranges ==
    <<seqVars, sliceVars, editVars, popupVars, inputVars, noteVars, playVars, custom, app, moved, editor, view, replay, borrow, nth, cblock, blockIds, bakeLen>>

\* what the EveryNth iteration leaves alone
except_nth ==
    <<seqVars, sliceVars, editVars, popupVars, inputVars, noteVars, playVars, custom, app, moved, editor, view, replay, borrow, ranges, cblock, blockIds, bakeLen>>

\* what the CustomBlock mover leaves alone
except_cblock ==
    <<seqVars, sliceVars, editVars, popupVars, inputVars, noteVars, playVars, custom, app, moved, editor, view, replay, borrow, ranges, nth, blockIds, bakeLen>>

\* what the sequencer's editor leaves alone
except_blockIds ==
    <<seqVars, sliceVars, editVars, popupVars, inputVars, noteVars, playVars, custom, app, moved, editor, view, replay, borrow, ranges, nth, cblock, bakeLen>>

\* what the bake callers leaves alone
except_bakeLen ==
    <<seqVars, sliceVars, editVars, popupVars, inputVars, noteVars, playVars, custom, app, moved, editor, view, replay, borrow, ranges, nth, cblock, blockIds>>

laterVars ==
    <<editVars, popupVars, inputVars, noteVars, playVars, restVars>>
vars == <<seqVars, sliceVars, laterVars>>

\* ------------------------------------------------------------ time (sound.rs)
\* FromBeats::secs_to_beats
secs_to_beats(secs, bps) == secs * bps

\* ---------------------------------------------------- ordering and searching
\* impl Ord for SoundEvent compares `when` alone; impl Ord for a point
\* (NoteBlock, SoundBlock) compares `offset` alone
OrdKey(x) == IF "when" \in DOMAIN x THEN x.when ELSE x.offset

\* x[i] for a 0-based index i
At(s, i) == s[i + 1]

RECURSIVE bsearch_loop(_, _, _, _)
bsearch_loop(s, k, left, right) ==
    IF left < right
    THEN LET mid == left + ((right - left) \div 2)
             c   == OrdKey(At(s, mid))
         IN  IF c = k THEN [found |-> TRUE, at |-> mid]
             ELSE bsearch_loop(s, k, IF c < k THEN mid + 1 ELSE left,
                                     IF c > k THEN mid ELSE right)
    ELSE [found |-> FALSE, at |-> left]

\* <[T]>::binary_search of the standard library: Ok(at) when found, Err(at)
\* (the insertion point) when not
binary_search(s, v) == bsearch_loop(s, OrdKey(v), 0, Len(s))

\* Vec::insert(id, value), id 0-based
insert(s, id, v) == SubSeq(s, 1, id) \o <<v>> \o SubSeq(s, id + 1, Len(s))

push_sorted_id(s, v) == binary_search(s, v).at

\* a defect: the value is appended, whatever its order
push_sorted_append(s, v) == Append(s, v)

\* VecExt::push_sorted: the vector after the insertion
push_sorted(s, v) == insert(s, push_sorted_id(s, v), v)

\* ------------------------------------------------------- sounds and events
\* struct NoteBlock {offset, value, len}; the pitch `value` takes no part in
\* the scheduling and is left out
NoteBlock(offset, len) == [offset |-> offset, len |-> len]

\* Sound::None, Sound::Note{pattern, release, ..}, Sound::Noise{len, ..}
SoundNone == [type |-> "None", notes |-> <<>>, release |-> 0, len |-> 0]
SoundNote(notes) ==
    [type |-> "Note", notes |-> notes, release |-> DefaultRelease, len |-> 0]
SoundNoise(len) == [type |-> "Noise", notes |-> <<>>, release |-> 0, len |-> len]

\* struct SoundBlock {sound, layer, offset}; blocks are ordered by offset alone
SoundBlock(sound, offset) == [sound |-> sound, offset |-> offset]

\* enum SoundEvent; `state` is used by BlockStart and `block` (the gain node)
\* by BlockEnd
BlockStart(id, when, state) ==
    [type |-> "BlockStart", id |-> id, when |-> when, state |-> state, block |-> 0]
BlockEnd(id, when, block) ==
    [type |-> "BlockEnd", id |-> id, when |-> when, state |-> 0, block |-> block]
Start(id, when) ==
    [type |-> "Start", id |-> id, when |-> when, state |-> 0, block |-> 0]
Stop(id, when) ==
    [type |-> "Stop", id |-> id, when |-> when, state |-> 0, block |-> 0]

\* SoundEvent::target
target(e) == e.id

\* SoundEvent::when
when(e) == e.when

\* the gain node a Noise sound owns (created by Sound::new); the gain nodes
\* poll creates are numbered 1, 2, ...
NoiseGain(id) == 0 - (id + 1)

\* what an unchecked read past the end of a pattern can yield: whatever lies
\* at the address, here one of a few NoteBlocks
Garbage == {NoteBlock(o, l) : o \in {0, 3}, l \in {0, 1}}

\* the patterns of the sequencer the model starts from, each sorted by offset
Patterns ==
    { <<SoundBlock(SoundNoise(3), 0), SoundBlock(SoundNoise(5), 0)>>,
      <<SoundBlock(SoundNote(<<NoteBlock(0, 2), NoteBlock(3, 2)>>), 0),
        SoundBlock(SoundNone, 2)>>,
      <<SoundBlock(SoundNote(<<NoteBlock(0, 0), NoteBlock(0, 3)>>), 1),
        SoundBlock(SoundNoise(2), 1)>>,
      <<SoundBlock(SoundNoise(1), 0),
        SoundBlock(SoundNote(<<NoteBlock(1, 1)>>), 0)>>,
      <<SoundBlock(SoundNote(<<>>), 1)>> }

\* Sound::reset: the events the sound schedules before a play, and whether
\* first_unchecked read an empty pattern (`g` is what it read then)
reset(sound, self_id, self_offset, g) ==
    CASE sound.type = "None" -> [out |-> <<>>, ub |-> FALSE]
      [] sound.type = "Note" ->
            LET first == IF Len(sound.notes) > 0 THEN sound.notes[1] ELSE g
            IN  [out |-> <<BlockStart(self_id, self_offset + first.offset, 0)>>,
                 ub  |-> Len(sound.notes) = 0]
      [] sound.type = "Noise" ->
            [out |-> <<Start(self_id, self_offset)>>, ub |-> FALSE]

\* Sound::poll: the events handed to the scheduler, in order; the connection
\* made; the node disconnected; whether it returned Err; whether
\* get_unchecked(state) read past the end (`g` is what it read then).
\* `uid` names the gain node a BlockStart creates.
poll(sound, plugNode, src, uid, g) ==
    LET nothing == [out |-> <<>>, connect |-> {}, disconnect |-> {},
                    err |-> FALSE, ub |-> FALSE, created |-> 0]
    IN
    CASE sound.type = "None" -> nothing
      [] sound.type = "Note" ->
            CASE src.type = "BlockStart" ->
                    LET n    == Len(sound.notes)
                        cur  == IF src.state < n THEN At(sound.notes, src.state) ELSE g
                        end  == BlockEnd(src.id,
                                    src.when + cur.len + sound.release
                                        + secs_to_beats(EndDelay, BPS),
                                    uid)
                        state == src.state + 1
                    IN  [nothing EXCEPT
                            !.out = <<end>> \o
                                (IF state < n
                                 THEN <<BlockStart(src.id,
                                           src.when + At(sound.notes, state).offset
                                               - cur.offset,
                                           state)>>
                                 ELSE <<>>),
                            !.connect = {[node |-> uid, plug |-> plugNode,
                                          id |-> src.id, state |-> src.state]},
                            !.ub = ~(src.state < n),
                            !.created = 1]
              [] src.type = "BlockEnd" -> [nothing EXCEPT !.disconnect = {src.block}]
              [] OTHER -> [nothing EXCEPT !.err = TRUE]
      [] sound.type = "Noise" ->
            CASE src.type = "Start" ->
                    [nothing EXCEPT
                        !.out = <<Stop(src.id, src.when + sound.len)>>,
                        !.connect = {[node |-> NoiseGain(src.id), plug |-> plugNode,
                                      id |-> src.id, state |-> 0 - 1]}]
              [] src.type = "Stop" ->
                    [nothing EXCEPT !.disconnect = {NoiseGain(src.id)}]
              [] OTHER -> [nothing EXCEPT !.err = TRUE]

\* ------------------------------------------------------ Sequencer::handle_event
\* the scheduler closure of StartPlay: |x| _ = self.pending.push_sorted(x)
RECURSIVE push_all(_, _)
push_all(pend, evs) ==
    IF evs = <<>> THEN pend
    ELSE push_all(push_sorted(pend, Head(evs)), Tail(evs))

\* StartPlay's loop over self.pattern.iter_mut().enumerate(), from block `id` on
RECURSIVE reset_all(_, _, _, _)
reset_all(pat, id, acc, g) ==
    IF id >= Len(pat) THEN acc
    ELSE LET r == reset(At(pat, id).sound, id, At(pat, id).offset, g)
         IN  reset_all(pat, id + 1,
                       [pending |-> push_all(acc.pending, r.out),
                        ub      |-> acc.ub \/ r.ub],
                       g)

\* a defect: the vector keeps its elements
clear_keep(v) == v

\* self.pending.clear()
clear(v) == <<>>

\* AppEvent::StartPlay
StartPlay(g) ==
    /\ nPlays < MaxPlays
    /\ LET r == reset_all(pattern, 0, [pending |-> clear(pending), ub |-> ub], g)
       IN  /\ pending' = r.pending
           /\ ub' = r.ub
    /\ playing' = TRUE
    /\ nPlays' = nPlays + 1
    /\ lastEv' = "StartPlay"
    /\ UNCHANGED <<pattern, used_to_play, plug, linked, conns, now, play_since,
                   nextNode, frNow, frBefore, frPolled, frDue, frErr,
                   prevPlug>>

\* a defect: the old plug is kept
new_plug_same(old) == old

\* the plug StopPlay puts in place of the old one:
\* ctx.audio_ctx.create_dynamics_compressor()
new_plug(old) == old + 1

\* AppEvent::StopPlay
StopPlay ==
    /\ plug < MaxStops
    /\ pending' = clear(pending)
    /\ prevPlug' = plug
    /\ plug' = new_plug(plug)
    /\ linked' = (linked \ {plug}) \cup {plug'}
    /\ playing' = FALSE
    /\ used_to_play' = FALSE
    /\ lastEv' = "StopPlay"
    /\ UNCHANGED <<pattern, conns, now, play_since, nPlays, nextNode, frNow,
                   frBefore, frPolled, frDue, frErr, ub>>

\* self.pending.iter().position(|x| x.when() > now).unwrap_or(self.pending.len())
n_due(pend, nowb) ==
    IF \E i \in 1..Len(pend) : when(pend[i]) > nowb
    THEN (CHOOSE i \in 1..Len(pend) :
              /\ when(pend[i]) > nowb
              /\ \A j \in 1..(i - 1) : ~(when(pend[j]) > nowb)) - 1
    ELSE Len(pend)

\* a defect: the new event goes to the front of due_now
due_push_front(due, new) == <<new>> \o due

\* due_now.push(new)
due_push(due, new) == Append(due, new)

\* The state a Frame threads through its loops: pending, the connections, the
\* gain nodes created, the log of polled events, the number of events handed
\* to due_now, and the two ways a poll goes wrong.
\* One poll with the Frame's scheduler closure: an event later than `nowb`
\* goes to pending (push_sorted), any other to due_now, numbered in the order
\* of production.
RECURSIVE schedule(_, _, _, _)
schedule(st, due, evs, nowb) ==
    IF evs = <<>> THEN [st |-> st, due |-> due]
    ELSE LET new == Head(evs)
         IN  IF when(new) > nowb
             THEN schedule([st EXCEPT !.pending = push_sorted(st.pending, new)],
                           due, Tail(evs), nowb)
             ELSE schedule([st EXCEPT !.nprod = st.nprod + 1],
                           due_push(due, [ev |-> new, prod |-> st.nprod + 1]),
                           Tail(evs), nowb)

\* a defect: the poll hands every new event to the scheduler twice
poll_or_repeat(sound, plugNode, src, uid, g, failing) ==
    LET r == poll(sound, plugNode, src, uid, g)
    IN  [r EXCEPT !.out = r.out \o r.out]

\* a poll whose first call into the audio backend returns Err when `failing`
poll_or_fail(sound, plugNode, src, uid, g, failing) ==
    IF failing
    THEN [out |-> <<>>, connect |-> {}, disconnect |-> {}, err |-> TRUE,
          ub |-> FALSE, created |-> 0]
    ELSE poll(sound, plugNode, src, uid, g)

\* for event in due_now.take() {block.inner().poll(..)?}: `batch` is what is
\* left of the taken vector, `due` the new due_now
RECURSIVE for_batch(_, _, _, _, _, _)
for_batch(st, sound, batch, due, nowb, g) ==
    IF batch = <<>> \/ st.err THEN [st |-> st, due |-> due]
    ELSE LET item == Head(batch)
             r    == poll_or_fail(sound, plug, item.ev, st.nextNode + 1, g,
                                  st.fail = Len(st.polled) + 1)
             st1  == [st EXCEPT
                        !.polled = Append(st.polled, item),
                        !.nextNode = st.nextNode + r.created,
                        !.conns = {c \in st.conns : c.node \notin r.disconnect}
                                      \cup r.connect,
                        !.err = r.err,
                        !.ub = st.ub \/ r.ub]
             s2   == schedule(st1, due, r.out, nowb)
         IN  for_batch(s2.st, sound, Tail(batch), s2.due, nowb, g)

\* while !due_now.is_empty() {..}
RECURSIVE while_due(_, _, _, _, _)
while_due(st, sound, due, nowb, g) ==
    IF due = <<>> \/ st.err THEN st
    ELSE LET r == for_batch(st, sound, due, <<>>, nowb, g)
         IN  while_due(r.st, sound, r.due, nowb, g)

\* for event in self.pending.drain(..n_due).collect::<Vec<_>>() {..}
RECURSIVE for_drained(_, _, _, _)
for_drained(st, drained, nowb, g) ==
    IF drained = <<>> \/ st.err THEN st
    ELSE LET event == Head(drained)
             block == At(pattern, target(event))
             st1   == while_due(st, block.sound, <<[ev |-> event, prod |-> 0]>>,
                                nowb, g)
         IN  for_drained(st1, Tail(drained), nowb, g)

\* AppEvent::Frame, handled with ctx.now = t; the poll number `fail` of this
\* Frame, if there is one, fails in the audio backend
FrameWith(t, g, fail) ==
    /\ t \in now..MaxTime
    /\ now' = t
    /\ lastEv' = "Frame"
    /\ frBefore' = pending
    /\ IF playing
       THEN LET nowb == IF used_to_play
                        THEN secs_to_beats(t - play_since, BPS)
                        ELSE 0
                n    == n_due(pending, nowb)
                st0  == [pending |-> SubSeq(pending, n + 1, Len(pending)),
                         conns |-> conns, nextNode |-> nextNode,
                         polled |-> <<>>, nprod |-> 0, err |-> FALSE, ub |-> ub,
                         fail |-> fail]
                st   == for_drained(st0, SubSeq(pending, 1, n), nowb, g)
            IN  /\ play_since' = IF used_to_play THEN play_since ELSE t
                /\ used_to_play' = TRUE
                /\ frNow' = nowb
                /\ pending' = st.pending
                /\ conns' = st.conns
                /\ nextNode' = st.nextNode
                /\ frPolled' = st.polled
                /\ frDue' = st.nprod
                /\ frErr' = st.err
                /\ ub' = st.ub
       ELSE /\ frPolled' = <<>>
            /\ frDue' = 0
            /\ frErr' = FALSE
            /\ UNCHANGED <<pending, conns, nextNode, play_since, used_to_play,
                           frNow, ub>>
    /\ UNCHANGED <<pattern, playing, plug, linked, nPlays, prevPlug>>

\* AppEvent::Frame with an audio backend that does not fail
Frame(t, g) == FrameWith(t, g, 0)

\* ------------------------------------------- sorted slices (wavexp-utils)
\* a point of a sorted slice: a NoteBlock with its offset and its pitch; Ord
\* compares the offsets, PartialEq (derived) all the fields
Point(offset, value) == [offset |-> offset, value |-> value]

\* s[a..=b].rotate_right(1), a and b 0-based
rotate_right(s, a, b) ==
    [i \in 1..Len(s) |->
        IF i = a + 1 THEN s[b + 1]
        ELSE IF i > a + 1 /\ i <= b + 1 THEN s[i - 1]
        ELSE s[i]]

\* a defect: the rotation to the left is left out
rotate_left_none(s, a, b) == s

\* s[a..=b].rotate_left(1), a and b 0-based
rotate_left(s, a, b) ==
    [i \in 1..Len(s) |->
        IF i = b + 1 THEN s[a + 1]
        ELSE IF i >= a + 1 /\ i < b + 1 THEN s[i + 1]
        ELSE s[i]]

\* SliceExt::reorder_unchecked: the slice afterwards and the SliceMove
reorder_unchecked(s, index) ==
    LET element == At(s, index)
        pre == binary_search(SubSeq(s, 1, index), element)
        new == pre.at
        should_move == IF pre.found THEN new < index - 1 ELSE new # index
        suf == binary_search(SubSeq(s, index + 2, Len(s)), element)
        new2 == suf.at + index
    IN  IF should_move
        THEN [s |-> rotate_right(s, new, index),
              mv |-> [from |-> index, to |-> new]]
        ELSE [s |-> IF new2 > index THEN rotate_left(s, index, new2) ELSE s,
              mv |-> [from |-> index, to |-> new2]]

\* SliceExt::reorder: Err(ReorderError) when the index is out of bounds
reorder(s, index) ==
    IF index >= Len(s)
    THEN [ok |-> FALSE, s |-> s, mv |-> [from |-> index, to |-> index]]
    ELSE LET r == reorder_unchecked(s, index)
         IN  [ok |-> TRUE, s |-> r.s, mv |-> r.mv]

\* SliceExt::set_sorted: Err(SetSortedError) when the index is out of bounds
set_sorted(s, index, value) ==
    IF index >= Len(s)
    THEN [ok |-> FALSE, s |-> s, mv |-> [from |-> index, to |-> index]]
    ELSE LET should_reorder == value # At(s, index)
             set == [s EXCEPT ![index + 1] = value]
             r == reorder_unchecked(set, index)
         IN  IF should_reorder
             THEN [ok |-> TRUE, s |-> r.s, mv |-> r.mv]
             ELSE [ok |-> TRUE, s |-> set, mv |-> [from |-> index, to |-> index]]

\* usize::wrapping_add_signed
wrapping_add_signed(id, coef) == (id + coef) % USIZE

\* a defect: the signs of the two shifts are exchanged
apply_swapped(m, idseq) ==
    IF m.to = m.from THEN idseq
    ELSE LET coef == IF m.to < m.from THEN 0 - 1 ELSE 1
             lo == IF m.to < m.from THEN m.to ELSE m.from
             hi == IF m.to < m.from THEN m.from ELSE m.to
         IN  [j \in 1..Len(idseq) |->
                 IF idseq[j] = m.from THEN m.to
                 ELSE IF idseq[j] >= lo /\ idseq[j] < hi
                      THEN wrapping_add_signed(idseq[j], coef)
                      ELSE idseq[j]]

\* SliceMove::apply: the ids afterwards
apply(m, idseq) ==
    IF m.to = m.from THEN idseq
    ELSE LET coef == IF m.to < m.from THEN 1 ELSE 0 - 1
             lo == IF m.to < m.from THEN m.to ELSE m.from
             hi == IF m.to < m.from THEN m.from ELSE m.to
         IN  [j \in 1..Len(idseq) |->
                 IF idseq[j] = m.from THEN m.to
                 ELSE IF idseq[j] >= lo /\ idseq[j] < hi
                      THEN wrapping_add_signed(idseq[j], coef)
                      ELSE idseq[j]]

\* every index of s, in order: a selection that holds all of them
all_ids(s) == [j \in 1..Len(s) |-> j - 1]

\* Vec::push_sorted as a call: the vector afterwards and the returned index
add_point(s, v) == [s |-> push_sorted(s, v), id |-> push_sorted_id(s, v)]

\* a point is pushed into the sorted slice
PushSorted(v) ==
    /\ dirty = 0 - 1
    /\ Len(data) < MaxLen
    /\ LET r == add_point(data, v)
       IN  /\ data' = r.s
           /\ mv' = [from |-> r.id, to |-> r.id]
    /\ ids' = all_ids(data)
    /\ op' = "push_sorted"
    /\ prevData' = data
    /\ arg' = v
    /\ UNCHANGED dirty

\* NoteBlock::move_point / SoundBlock::move_point: the offset of one point is
\* changed in place, which may leave the slice unsorted at that index
\* (the pitch, which the move changes too, takes no part in the order and is
\* kept to tell the points apart)
MovePoint(i, k) ==
    /\ dirty = 0 - 1
    /\ i < Len(data)
    /\ data' = [data EXCEPT ![i + 1].offset = k]
    /\ dirty' = i
    /\ op' = "move_point"
    /\ prevData' = data
    /\ arg' = At(data, i)
    /\ UNCHANGED <<mv, ids>>

\* slice.reorder(i), then the returned move applied to a selection
Reorder(i) ==
    /\ dirty = 0 - 1 \/ dirty = i \/ i >= Len(data)
    /\ LET r == reorder(data, i)
       IN  /\ data' = r.s
           /\ mv' = r.mv
           /\ ids' = IF r.ok THEN apply(r.mv, all_ids(data)) ELSE all_ids(data)
           /\ op' = IF r.ok THEN "reorder" ELSE "reorder_err"
           /\ dirty' = IF r.ok THEN 0 - 1 ELSE dirty
    /\ prevData' = data
    /\ arg' = IF i < Len(data) THEN At(data, i) ELSE arg

\* slice.set_sorted(i, v), then the returned move applied to a selection
SetSorted(i, v) ==
    /\ dirty = 0 - 1 \/ dirty = i \/ i >= Len(data)
    /\ LET r == set_sorted(data, i, v)
       IN  /\ data' = r.s
           /\ mv' = r.mv
           /\ ids' = IF r.ok THEN apply(r.mv, all_ids(data)) ELSE all_ids(data)
           /\ op' = IF r.ok THEN "set_sorted" ELSE "set_sorted_err"
           /\ dirty' = IF r.ok /\ (dirty = 0 - 1 \/ v # At(data, i))
                       THEN 0 - 1 ELSE dirty
    /\ prevData' = data
    /\ arg' = v

\* --------------------------------------------------------- initial states
InitSeqFields ==
    /\ pending = <<>>
    /\ playing = FALSE
    /\ used_to_play = FALSE
    /\ plug = 0
    /\ linked = {0}
    /\ conns = {}
    /\ now = 0
    /\ play_since = 0
    /\ nPlays = 0
    /\ nextNode = 0
    /\ lastEv = "Init"
    /\ frNow = 0
    /\ frBefore = <<>>
    /\ frPolled = <<>>
    /\ frDue = 0
    /\ frErr = FALSE
    /\ prevPlug = 0
    /\ ub = FALSE

InitSeq == pattern \in Patterns /\ InitSeqFields

InitSlice ==
    /\ data = <<>>
    /\ dirty = 0 - 1
    /\ mv = [from |-> 0, to |-> 0]
    /\ ids = <<>>
    /\ op = "none"
    /\ prevData = <<>>
    /\ arg = Point(0, 0)

\* Sound::None, the default of a block's sound; the fields are those of
\* NoteSound and CustomSound (src: 0 for None, n for Some(input n))
SoundOfKind(kind) ==
    [kind |-> kind, volume |-> 1, attack |-> 0, decay |-> 0, sustain |-> 1,
     release |-> 0, rep_count |-> 1, speed |-> 1, src |-> 0]

\* no action: the entry of a step that registered, undid and redid nothing
NoAction == [kind |-> "None", ty |-> "None", from |-> 0, to |-> 0]

InitEdit ==
    /\ blockSound = SoundOfKind("None")
    /\ done = <<>>
    /\ undone = <<>>
    /\ edLast = [step |-> "init", ev |-> "None", act |-> NoAction,
                 before |-> SoundOfKind("None"), after |-> SoundOfKind("None")]

\* App::create: popups: vec![]
InitPopups ==
    /\ popups = <<>>
    /\ popDone = <<>>
    /\ popUndone = <<>>
    /\ popLast = "init"

\* the raw buffer has RawLen frames in each of its ChannelCount channels
\* (Sequencer::CHANNEL_COUNT)
RawLen == 3
ChannelCount == 2

\* the raw buffer: channel c holds the samples c * RawLen + 1 ..
RawBuffer == [c \in 1..ChannelCount |-> [i \in 1..RawLen |-> (c - 1) * RawLen + i]]

\* AudioInputChanges::default()
NoChanges == [reversed |-> FALSE, cut_start |-> 0, cut_end |-> 0]

\* AudioInput::new; cuts are counted in frames and the duration in frames
\* too, as if bps and the sample rate were 1
InitInput ==
    /\ input = [raw |-> RawBuffer, duration |-> RawLen, baked |-> RawBuffer,
                pending_changes |-> NoChanges, baked_changes |-> NoChanges]
    /\ bakeLast = "new"

\* Option<T>
Some(x) == [some |-> TRUE, v |-> x]
None == [some |-> FALSE, v |-> 0]

\* Note::default(): Note(0)
InitNotes ==
    /\ noteCalc = [op |-> "default", index |-> 0, ty |-> "u8", rhs |-> 0,
                   res |-> Some(0), back |-> 0, cur |-> 0]
    /\ oldNote = [index |-> 0, op |-> "default"]

\* NoteSound::default(), not played yet; ctx: now = 0 s, bps = 1
InitPlayer ==
    player = [sound |-> [pattern |-> <<>>, volume |-> 1, attack |-> 0,
                         decay |-> 0, sustain |-> 1, release |-> 0,
                         rep_count |-> 1],
              now |-> 0, self_offset |-> 0, bps |-> 1,
              sched |-> <<>>, step |-> "init", len |-> 0, old_len |-> 0]

\* ---- initial state of the further machines
Init_custom ==
    custom = [sound |-> [src |-> [some |-> FALSE, v |-> 0],
                        pattern |-> <<[offset |-> 0, pitch |-> 18]>>,
                        volume |-> 1, attack |-> 0, decay |-> 0,
                        sustain |-> 1, release |-> 0, rep_count |-> 1,
                        speed |-> 100],
             now |-> 0, self_offset |-> 0, bps |-> 1,
             sched |-> <<>>, step |-> "init"]

Init_app ==
    app = [popups |-> 0, rerender_needed |-> FALSE, hidden |-> TRUE, logged |-> 0,
          error_count |-> 0,
          last |-> [comp |-> "none", msg |-> "none", failed |-> FALSE,
                    ret |-> FALSE]]

Init_moved ==
    moved = [block |-> [offset |-> 0, value |-> 0, len |-> 1],
            before |-> [offset |-> 0, value |-> 0, len |-> 1],
            delta |-> <<0, 0>>, meta |-> FALSE, res |-> "init"]

Init_editor ==
    editor = [focus |-> [kind |-> "None", id |-> 0],
             selected_id |-> [some |-> FALSE, v |-> 0],
             captured |-> FALSE, held |-> FALSE,
             focused_comp |-> [some |-> FALSE, v |-> 0],
             plane_moving |-> FALSE, main_captured |-> FALSE,
             last |-> "none"]

Init_view ==
    view = [kind |-> "Note", playback |-> [all |-> FALSE, finite |-> TRUE, start |-> 0],
           frame |-> 0, bps |-> 1, sb_offset |-> 0, n_reps |-> 1,
           note |-> <<>>, custom |-> <<[offset |-> 0, pitch |-> 18]>>,
           len |-> 20,
           out |-> [cursor |-> FALSE, x |-> 0, force_redraw |-> FALSE],
           step |-> "init"]

Init_replay ==
    replay = [snd |-> [kind |-> "Note", volume |-> 1, attack |-> 0, decay |-> 0,
                     sustain |-> 1, release |-> 0, rep_count |-> 1,
                     speed |-> 1, src |-> 0],
             selected_tab |-> 0, pat_handled |-> 0,
             last |-> [ev |-> "none", kind |-> "None", from |-> 0, to |-> 0,
                       applied |-> FALSE, forwarded |-> FALSE]]

Init_borrow ==
    borrow = [len |-> 0, ids |-> <<>>,
             res |-> [kind |-> "init", mutable |-> FALSE, refs |-> <<>>,
                      id |-> 0, len |-> 0]]

Init_ranges ==
    ranges = [a |-> [start |-> 0, end |-> 0], b |-> [start |-> 0, end |-> 0],
             res |-> "init"]

Init_nth ==
    nth = [len |-> 0, n |-> 1, state |-> 0, off |-> 0, mutable |-> FALSE,
          out |-> <<>>, done |-> TRUE]

Init_cblock ==
    cblock = [offset |-> 0, pitch |-> 18]

Init_blockIds ==
    blockIds = <<>>

Init_bakeLen ==
    bakeLen = [computed |-> FALSE, value |-> 0, panic |-> FALSE]

InitRest ==
    /\ Init_custom
    /\ Init_app
    /\ Init_moved
    /\ Init_editor
    /\ Init_view
    /\ Init_replay
    /\ Init_borrow
    /\ Init_ranges
    /\ Init_nth
    /\ Init_cblock
    /\ Init_blockIds
    /\ Init_bakeLen

InitLater ==
    InitEdit /\ InitPopups /\ InitInput /\ InitNotes /\ InitPlayer /\ InitRest

Init == InitSeq /\ InitSlice /\ InitLater

Next ==
    \/ \E g \in Garbage : StartPlay(g) /\ UNCHANGED <<sliceVars, laterVars>>
    \/ StopPlay /\ UNCHANGED <<sliceVars, laterVars>>
    \/ \E t \in 0..MaxTime, g \in Garbage : Frame(t, g) /\ UNCHANGED <<sliceVars, laterVars>>

Spec == Init /\ [][Next]_vars

\* the sorted-slice helpers, driven on one slice of at most MaxLen points
InitSliceOnly == pattern = <<>> /\ InitSeqFields /\ InitSlice /\ InitLater

\* the value of a point pushed next: the points of a slice are told apart
NextValue == Len(data) + 1

NextSlice ==
    \/ \E k \in 0..MaxKey :
           PushSorted(Point(k, NextValue)) /\ UNCHANGED <<seqVars, laterVars>>
    \/ \E i \in 0..MaxLen - 1, k \in 0..MaxKey :
           MovePoint(i, k) /\ UNCHANGED <<seqVars, laterVars>>
    \/ \E i \in 0..MaxLen : Reorder(i) /\ UNCHANGED <<seqVars, laterVars>>
    \/ \E i \in 0..MaxLen, k \in 0..MaxKey :
           /\ SetSorted(i, Point(k, IF i < Len(data) THEN At(data, i).value
                                                    ELSE NextValue))
           /\ UNCHANGED <<seqVars, laterVars>>

SpecSlice == InitSliceOnly /\ [][NextSlice]_vars

\* ------------------------------------------------------------------ helpers
\* the number of positions of s holding x
Count(s, x) == Cardinality({i \in 1..Len(s) : s[i] = x})

\* the events of a Frame's log that were drained from pending / handed to due_now
Roots(log) == SelectSeq(log, LAMBDA it : it.prod = 0)
Nested(log) == SelectSeq(log, LAMBDA it : it.prod > 0)

IsDue(e) == when(e) <= frNow
IsLater(e) == when(e) > frNow

\* the connections of gain nodes created by polling a BlockStart
GainConns == {c \in conns : c.node > 0}

\* ------------------------------------------------------------------- claims

\* C1: while the sequencer is playing, a Frame handled at clock time t polls,
\* of the events it found in `pending`, exactly those with
\* when <= (t - play_since) * bps, in their order, and removes them; every
\* event it found with a later `when` is still pending and was not polled.
C1_DrainExactlyDue ==
    (lastEv = "Frame" /\ playing) =>
        /\ frNow = secs_to_beats(now - play_since, BPS)
        /\ [i \in 1..Len(Roots(frPolled)) |-> Roots(frPolled)[i].ev]
               = SelectSeq(frBefore, IsDue)
        /\ \A i \in 1..Len(frBefore) :
               IsLater(frBefore[i]) =>
                   /\ Count(pending, frBefore[i]) >= Count(frBefore, frBefore[i])
                   /\ \A j \in 1..Len(frPolled) : frPolled[j].ev # frBefore[i]
        /\ \A i \in 1..Len(frBefore) :
               IsDue(frBefore[i]) => Count(pending, frBefore[i]) = 0

\* a Frame of a running play that polled a due event and left a later one
C1_Witness ==
    /\ lastEv = "Frame" /\ playing /\ frNow > 0
    /\ \E i \in 1..Len(frBefore) : IsDue(frBefore[i])
    /\ \E i \in 1..Len(frBefore) : IsLater(frBefore[i])

\* C2: for every (block id, pattern state) at most one polled BlockStart has
\* its BlockEnd not yet polled, i.e. at most one gain node made for that pair
\* is still connected.
C2_AtMostOneLive ==
    \A c1, c2 \in GainConns :
        (c1.id = c2.id /\ c1.state = c2.state) => c1 = c2

\* C3: right after StopPlay `pending` is empty, `playing` is false, the plug
\* is a new node to which nothing is connected and the old plug is cut off
\* the output chain; and a Frame handled while not playing polls nothing.
C3_StopPlayComplete ==
    /\ lastEv = "StopPlay" =>
           /\ pending = <<>>
           /\ ~playing
           /\ plug # prevPlug
           /\ plug \in linked /\ prevPlug \notin linked
           /\ \A c \in conns : c.plug # plug
    /\ (lastEv = "Frame" /\ ~playing) => (frPolled = <<>> /\ pending = <<>>)

\* a Frame handled after a StopPlay that cut a play short while a gain node
\* was connected
C3_Witness ==
    /\ lastEv = "Frame" /\ ~playing /\ plug > 0
    /\ \E c \in GainConns : c.plug = prevPlug

\* C4: right after StartPlay `playing` is true and `pending` holds one Start
\* (when = block.offset) per Noise block, one BlockStart of state 0 per Note
\* block, nothing for a None block and nothing else.
C4_StartPlayInitialEvents ==
    lastEv = "StartPlay" =>
        /\ playing
        /\ Len(pending) = Cardinality({id \in 0..(Len(pattern) - 1) :
                                          At(pattern, id).sound.type # "None"})
        /\ \A id \in 0..(Len(pattern) - 1) :
               LET b    == At(pattern, id)
                   mine == {i \in 1..Len(pending) : target(pending[i]) = id}
               IN  CASE b.sound.type = "None"  -> mine = {}
                     [] b.sound.type = "Noise" ->
                            /\ Cardinality(mine) = 1
                            /\ \A i \in mine : pending[i] = Start(id, b.offset)
                     [] b.sound.type = "Note"  ->
                            /\ Cardinality(mine) = 1
                            /\ \A i \in mine : /\ pending[i].type = "BlockStart"
                                               /\ pending[i].state = 0

\* a StartPlay handled in the middle of an earlier play, whose BlockEnd was
\* pending
C4_Witness ==
    /\ lastEv = "StartPlay" /\ nPlays > 1
    /\ GainConns # {}
    /\ pending # <<>>

\* C5: the events poll hands to due_now during a Frame (when <= now) are all
\* polled in that Frame, in the order of their production, and after the
\* Frame no event with when <= now is pending.
C5_ImmediateFifo ==
    (lastEv = "Frame" /\ playing) =>
        /\ Len(Nested(frPolled)) = frDue
        /\ \A i \in 1..frDue : Nested(frPolled)[i].prod = i
        /\ \A i \in 1..frDue : IsDue(Nested(frPolled)[i].ev)
        /\ \A i \in 1..Len(pending) : IsLater(pending[i])

\* a Frame in which poll produced at least two events that were already due
C5_Witness ==
    /\ lastEv = "Frame" /\ playing
    /\ frDue >= 2

C7_EveryGainHasPendingEnd ==
    \A c \in GainConns :
        \E i \in 1..Len(pending) :
            pending[i].type = "BlockEnd" /\ pending[i].block = c.node

\* ------------------------------------------------ claims on sorted slices
\* the slice is ordered by offset
Sorted(s) == \A i, j \in 1..Len(s) : i < j => s[i].offset <= s[j].offset

\* s without its element at the 0-based index i
Remove(s, i) == SubSeq(s, 1, i) \o SubSeq(s, i + 2, Len(s))

\* s is sorted except possibly at the 0-based index i
SortedExceptAt(s, i) == i < Len(s) /\ Sorted(Remove(s, i))

\* a and b hold the same elements, each as many times
IsPerm(a, b) ==
    /\ Len(a) = Len(b)
    /\ \A i \in 1..Len(a) : Count(a, a[i]) = Count(b, a[i])

\* `data` is a sorted permutation of `expected` and holds `e` at the returned
\* index
SortedResult(expected, e) ==
    /\ Sorted(data)
    /\ IsPerm(data, expected)
    /\ mv.to < Len(data)
    /\ At(data, mv.to) = e

\* C8 as stated: push_sorted on a sorted vector, and reorder(i) and
\* set_sorted(i, v) on a slice sorted except possibly at i, each leave a
\* sorted permutation with the affected element at the returned index.
C8_SortedPermutation ==
    /\ (op = "push_sorted" /\ Sorted(prevData))
          => SortedResult(Append(prevData, arg), arg)
    /\ (op = "reorder" /\ SortedExceptAt(prevData, mv.from))
          => SortedResult(prevData, At(prevData, mv.from))
    /\ (op = "set_sorted" /\ SortedExceptAt(prevData, mv.from))
          => SortedResult([prevData EXCEPT ![mv.from + 1] = arg], arg)

\* C8 amended: the same for push_sorted and reorder(i); set_sorted(i, v)
\* does so when the slice was sorted or v differs from the element it
\* replaces, and otherwise leaves the slice as it was and returns i -> i.
C8_SortedUnlessSameValue ==
    /\ (op = "push_sorted" /\ Sorted(prevData))
          => SortedResult(Append(prevData, arg), arg)
    /\ (op = "reorder" /\ SortedExceptAt(prevData, mv.from))
          => SortedResult(prevData, At(prevData, mv.from))
    /\ (op = "set_sorted" /\ SortedExceptAt(prevData, mv.from))
          => IF Sorted(prevData) \/ arg # At(prevData, mv.from)
             THEN SortedResult([prevData EXCEPT ![mv.from + 1] = arg], arg)
             ELSE data = prevData /\ mv.to = mv.from

\* set_sorted has moved a new value out of a slice that was unsorted at i
C8_Witness ==
    /\ op = "set_sorted"
    /\ ~Sorted(prevData)
    /\ SortedExceptAt(prevData, mv.from)
    /\ mv.to > mv.from
    /\ Sorted(data)

\* C9: after reorder(i), SliceMove::apply has mapped every old index j to
\* the new position of the element that was at j.
C9_ApplyTracksElements ==
    op = "reorder" =>
        \A j \in 0..Len(prevData) - 1 :
            /\ At(ids, j) < Len(data)
            /\ At(data, At(ids, j)) = At(prevData, j)

\* C10: after reorder(i), SliceMove::apply leaves every index that was below
\* the length of the slice below it.
C10_IdsStayBelowLen ==
    op = "reorder" =>
        \A j \in 0..Len(prevData) - 1 : At(ids, j) \in 0..Len(data) - 1

\* reorder has moved the last element of a slice of three or more to the
\* front, and apply has shifted the other indices
C10_Witness ==
    /\ op = "reorder"
    /\ Len(data) >= 3
    /\ mv.from = Len(data) - 1
    /\ mv.to = 0
    /\ ids # all_ids(prevData)

\* --------------------------------------- sounds and the action history
\* the values a parameter event carries are 0 .. MaxVal (1 .. MaxVal + 1 for
\* the NonZero repetition count and for the number of an audio input)
MaxVal == 1
\* at most MaxActs actions are registered in the history
MaxActs == 2

\* enum SoundType
SoundTypes == {"Note", "Noise", "Custom"}

\* a defect: every new sound is a Note sound
Sound_new_note(ty) == SoundOfKind("Note")

\* Sound::new; the Default of NoteSound and of CustomSound
Sound_new(ty) == SoundOfKind(ty)

\* the field an AppEvent of the sound's parameters sets
ParamField ==
    [Volume |-> "volume", Attack |-> "attack", Decay |-> "decay",
     Sustain |-> "sustain", Release |-> "release", RepCount |-> "rep_count",
     Speed |-> "speed", AddInput |-> "src", SelectInput |-> "src"]

\* the EditorAction that event registers
ParamAction ==
    [Volume |-> "SetVolume", Attack |-> "SetAttack", Decay |-> "SetDecay",
     Sustain |-> "SetSustain", Release |-> "SetRelease",
     RepCount |-> "SetRepCount", Speed |-> "SetSpeed",
     AddInput |-> "SelectInput", SelectInput |-> "SelectInput"]

\* the field an EditorAction restores
ActionField ==
    [SetVolume |-> "volume", SetAttack |-> "attack", SetDecay |-> "decay",
     SetSustain |-> "sustain", SetRelease |-> "release",
     SetRepCount |-> "rep_count", SetSpeed |-> "speed", SelectInput |-> "src"]

\* the events and the actions NoteSound::handle_event has an arm for
NoteEvents == {"Volume", "Attack", "Decay", "Sustain", "Release", "RepCount"}
NoteActions == {ParamAction[e] : e \in NoteEvents}

\* the events and the actions CustomSound::handle_event has an arm for
CustomEvents == NoteEvents \cup {"Speed", "AddInput", "SelectInput"}
CustomActions == {ParamAction[e] : e \in CustomEvents}

\* AppEvent::X(to), AppEvent::SetBlockType(ty), AppEvent::Undo / Redo(actions)
ParamEvent(type, to) == [type |-> type, to |-> to, ty |-> "None", actions |-> <<>>]
SetBlockTypeEvent(ty) ==
    [type |-> "SetBlockType", to |-> 0, ty |-> ty, actions |-> <<>>]
UndoEvent(actions) == [type |-> "Undo", to |-> 0, ty |-> "None", actions |-> actions]
RedoEvent(actions) == [type |-> "Redo", to |-> 0, ty |-> "None", actions |-> actions]

\* EditorAction::SetX{from: replace(&mut self.x, to), to}
ValueAction(snd, ev) ==
    [kind |-> ParamAction[ev.type], ty |-> "None",
     from |-> snd[ParamField[ev.type]], to |-> ev.to]

\* EditorAction::SetBlockType(ty)
SetBlockTypeAction(ty) == [kind |-> "SetBlockType", ty |-> ty, from |-> 0, to |-> 0]

\* an arm of the Redo loop: self.x = to
redo_action(snd, a) == [snd EXCEPT ![ActionField[a.kind]] = a.to]

\* a defect: Undo sets the new value again
undo_action_to(snd, a) == redo_action(snd, a)

\* an arm of the Undo loop: self.x = from
undo_action(snd, a) == [snd EXCEPT ![ActionField[a.kind]] = a.from]

\* the Undo loop of a sound: SetBlockType sets reset_sound and breaks
RECURSIVE undo_loop(_, _, _, _)
undo_loop(snd, actions, i, handled) ==
    IF i > Len(actions) THEN [snd |-> snd, reset |-> FALSE]
    ELSE IF actions[i].kind = "SetBlockType" THEN [snd |-> snd, reset |-> TRUE]
    ELSE undo_loop(IF actions[i].kind \in handled
                   THEN undo_action(snd, actions[i]) ELSE snd,
                   actions, i + 1, handled)

\* the Redo loop of a sound
RECURSIVE redo_loop(_, _, _, _)
redo_loop(snd, actions, i, handled) ==
    IF i > Len(actions) THEN snd
    ELSE redo_loop(IF actions[i].kind \in handled
                   THEN redo_action(snd, actions[i]) ELSE snd,
                   actions, i + 1, handled)

\* a defect: a sound that is given SetBlockType asks to be reset
inner_handle_event_reset(snd, ev, events, handled) ==
    IF ev.type \in events
    THEN [snd |-> [snd EXCEPT ![ParamField[ev.type]] = ev.to],
          reg |-> <<ValueAction(snd, ev)>>, reset |-> FALSE]
    ELSE IF ev.type = "Undo"
    THEN LET r == undo_loop(snd, ev.actions, 1, handled)
         IN  [snd |-> r.snd, reg |-> <<>>, reset |-> r.reset]
    ELSE IF ev.type = "Redo"
    THEN [snd |-> redo_loop(snd, ev.actions, 1, handled),
          reg |-> <<>>, reset |-> FALSE]
    ELSE [snd |-> snd, reg |-> <<>>, reset |-> ev.type = "SetBlockType"]

\* NoteSound::handle_event and CustomSound::handle_event, which differ in
\* the events and actions they have arms for: the sound afterwards, the
\* actions registered and reset_sound
inner_handle_event(snd, ev, events, handled) ==
    IF ev.type \in events
    THEN [snd |-> [snd EXCEPT ![ParamField[ev.type]] = ev.to],
          reg |-> <<ValueAction(snd, ev)>>, reset |-> FALSE]
    ELSE IF ev.type = "Undo"
    THEN LET r == undo_loop(snd, ev.actions, 1, handled)
         IN  [snd |-> r.snd, reg |-> <<>>, reset |-> r.reset]
    ELSE IF ev.type = "Redo"
    THEN [snd |-> redo_loop(snd, ev.actions, 1, handled),
          reg |-> <<>>, reset |-> FALSE]
    ELSE [snd |-> snd, reg |-> <<>>, reset |-> FALSE]

NoteSound_handle_event(snd, ev) ==
    inner_handle_event(snd, ev, NoteEvents, NoteActions)

CustomSound_handle_event(snd, ev) ==
    inner_handle_event(snd, ev, CustomEvents, CustomActions)

\* NoiseSound::handle_event: an Undo of SetBlockType sets reset_sound; the
\* parameters of a Noise sound are left out
NoiseSound_handle_event(snd, ev) == inner_handle_event(snd, ev, {}, {})

\* the Redo loop of Sound::None: every SetBlockType(ty) makes a new sound
RECURSIVE none_redo_loop(_, _, _)
none_redo_loop(snd, actions, i) ==
    IF i > Len(actions) THEN snd
    ELSE none_redo_loop(IF actions[i].kind = "SetBlockType"
                        THEN Sound_new(actions[i].ty) ELSE snd,
                        actions, i + 1)

\* Sound::handle_event: the sound afterwards and the actions registered
Sound_handle_event(snd, ev) ==
    IF snd.kind = "None"
    THEN IF ev.type = "SetBlockType"
         THEN [snd |-> Sound_new(ev.ty), reg |-> <<SetBlockTypeAction(ev.ty)>>]
         ELSE IF ev.type = "Redo"
         THEN [snd |-> none_redo_loop(snd, ev.actions, 1), reg |-> <<>>]
         ELSE [snd |-> snd, reg |-> <<>>]
    ELSE LET r == IF snd.kind = "Note" THEN NoteSound_handle_event(snd, ev)
                  ELSE IF snd.kind = "Custom"
                  THEN CustomSound_handle_event(snd, ev)
                  ELSE NoiseSound_handle_event(snd, ev)
         IN  [snd |-> IF r.reset THEN SoundOfKind("None") ELSE r.snd,
              reg |-> r.reg]

\* the values an event of the given parameter carries
ParamValues(type) ==
    IF type \in {"RepCount", "AddInput", "SelectInput"}
    THEN 1..MaxVal + 1 ELSE 0..MaxVal

\* an event reaches the sound; register_action pushes the action it
\* registers onto `done` and clears `undone`
Deliver(ev) ==
    LET r == Sound_handle_event(blockSound, ev)
        entry == [ev |-> ev.type, act |-> IF r.reg = <<>> THEN NoAction ELSE r.reg[1],
                  before |-> blockSound, after |-> r.snd]
    IN  /\ r.reg # <<>> => Len(done) < MaxActs
        /\ blockSound' = r.snd
        /\ done' = IF r.reg = <<>> THEN done ELSE Append(done, entry)
        /\ undone' = IF r.reg = <<>> THEN undone ELSE <<>>
        /\ edLast' = [step |-> IF r.reg = <<>> THEN "ignored" ELSE "register"]
                     @@ entry

\* the user picks the type of the block's sound
SetBlockType(ty) == Deliver(SetBlockTypeEvent(ty))

\* the user commits a value of a parameter
SetParam(type, to) == Deliver(ParamEvent(type, to))

\* undo: the last action of `done` goes to `undone` and Undo([action]) is
\* emitted
Undo ==
    /\ done # <<>>
    /\ LET entry == done[Len(done)]
           r == Sound_handle_event(blockSound, UndoEvent(<<entry.act>>))
       IN  /\ blockSound' = r.snd
           /\ done' = SubSeq(done, 1, Len(done) - 1)
           /\ undone' = Append(undone, entry)
           /\ edLast' = [step |-> "undo"] @@ entry

\* redo: the last action of `undone` goes back to `done` and Redo([action])
\* is emitted
Redo ==
    /\ undone # <<>>
    /\ LET entry == undone[Len(undone)]
           r == Sound_handle_event(blockSound, RedoEvent(<<entry.act>>))
       IN  /\ blockSound' = r.snd
           /\ undone' = SubSeq(undone, 1, Len(undone) - 1)
           /\ done' = Append(done, entry)
           /\ edLast' = [step |-> "redo"] @@ entry

InitIdle == pattern = <<>> /\ InitSeqFields /\ InitSlice /\ InitLater

NextEdit ==
    \/ \E ty \in SoundTypes :
           SetBlockType(ty) /\ UNCHANGED <<seqVars, sliceVars, popupVars, inputVars, noteVars, playVars, restVars>>
    \/ \E type \in CustomEvents : \E to \in ParamValues(type) :
           SetParam(type, to) /\ UNCHANGED <<seqVars, sliceVars, popupVars, inputVars, noteVars, playVars, restVars>>
    \/ Undo /\ UNCHANGED <<seqVars, sliceVars, popupVars, inputVars, noteVars, playVars, restVars>>
    \/ Redo /\ UNCHANGED <<seqVars, sliceVars, popupVars, inputVars, noteVars, playVars, restVars>>

SpecEdit == InitIdle /\ [][NextEdit]_vars

C13_SetBlockTypeRoundTrip ==
    /\ (edLast.ev = "SetBlockType" /\ edLast.before.kind = "None")
          => /\ edLast.step # "ignored"
             /\ edLast.act = SetBlockTypeAction(edLast.after.kind)
             /\ edLast.after = SoundOfKind(edLast.act.ty)
    /\ (edLast.step = "register" /\ edLast.act.kind = "SetBlockType")
          => blockSound = SoundOfKind(edLast.act.ty)
    /\ (edLast.step = "undo" /\ edLast.act.kind = "SetBlockType")
          => blockSound = SoundOfKind("None")
    /\ (edLast.step = "redo" /\ edLast.act.kind = "SetBlockType")
          => blockSound.kind = edLast.act.ty

\* the choice of the Custom type was undone and redone
C13_Witness ==
    /\ edLast.step = "redo"
    /\ edLast.act = SetBlockTypeAction("Custom")
    /\ blockSound.kind = "Custom"
    /\ undone # <<>>

\* ------------------------------------------------- the stack of pop-ups
\* the pop-ups are 1 .. MaxPopup
MaxPopup == 2
\* at most MaxDepth pop-ups are stacked
MaxDepth == 2
\* at most MaxPopActs pop-up actions are registered in the history
MaxPopActs == 3

\* EditorAction::OpenPopup(p), EditorAction::ClosePopup(p)
OpenPopupAction(p) == [kind |-> "OpenPopup", popup |-> p]
ClosePopupAction(p) == [kind |-> "ClosePopup", popup |-> p]

\* Vec::pop: the vector afterwards (an empty one stays empty)
pop(s) == IF s = <<>> THEN s ELSE SubSeq(s, 1, Len(s) - 1)

\* register_action: the action goes onto `done` with the stack before and
\* after the event that registered it, and `undone` is cleared
register_popup(a, after) ==
    /\ popDone' = Append(popDone, [act |-> a, before |-> popups, after |-> after])
    /\ popUndone' = <<>>

\* App::update, AppEvent::OpenPopup
OpenPopup(p) ==
    /\ Len(popDone) < MaxPopActs
    /\ Len(popups) < MaxDepth
    /\ popups' = Append(popups, p)
    /\ register_popup(OpenPopupAction(p), popups')
    /\ popLast' = "OpenPopup"

\* App::update, AppEvent::ClosePopup: `self.popups.pop()?` is an error when
\* no pop-up is open
ClosePopup ==
    /\ popups # <<>> => Len(popDone) < MaxPopActs
    /\ popups' = pop(popups)
    /\ IF popups = <<>> THEN UNCHANGED <<popDone, popUndone>>
       ELSE register_popup(ClosePopupAction(popups[Len(popups)]), popups')
    /\ popLast' = IF popups = <<>> THEN "ClosePopupErr" ELSE "ClosePopup"

\* App::update, AppEvent::KeyPress of Escape, not a repeat
Escape ==
    /\ popups # <<>> => Len(popDone) < MaxPopActs
    /\ popups' = pop(popups)
    /\ IF popups = <<>> THEN UNCHANGED <<popDone, popUndone>>
       ELSE register_popup(ClosePopupAction(popups[Len(popups)]), popups')
    /\ popLast' = "Escape"

\* a defect: the Undo of ClosePopup does not open the pop-up again
app_undo_action_drop(s, a) == pop(s)

\* App::update, an action of AppEvent::Undo
app_undo_action(s, a) ==
    IF a.kind = "OpenPopup" THEN pop(s) ELSE Append(s, a.popup)

\* App::update, an action of AppEvent::Redo
app_redo_action(s, a) ==
    IF a.kind = "OpenPopup" THEN Append(s, a.popup) ELSE pop(s)

\* undo: the last action of `done` goes to `undone`; App::update handles
\* AppEvent::Undo([action])
UndoPopup ==
    /\ popDone # <<>>
    /\ popups' = app_undo_action(popups, popDone[Len(popDone)].act)
    /\ popDone' = pop(popDone)
    /\ popUndone' = Append(popUndone, popDone[Len(popDone)])
    /\ popLast' = "Undo"

\* redo: the last action of `undone` goes back to `done`; App::update
\* handles AppEvent::Redo([action])
RedoPopup ==
    /\ popUndone # <<>>
    /\ popups' = app_redo_action(popups, popUndone[Len(popUndone)].act)
    /\ popUndone' = pop(popUndone)
    /\ popDone' = Append(popDone, popUndone[Len(popUndone)])
    /\ popLast' = "Redo"

NextPopup ==
    \/ \E p \in 1..MaxPopup : OpenPopup(p) /\ UNCHANGED <<seqVars, sliceVars, editVars, inputVars, noteVars, playVars, restVars>>
    \/ ClosePopup /\ UNCHANGED <<seqVars, sliceVars, editVars, inputVars, noteVars, playVars, restVars>>
    \/ Escape /\ UNCHANGED <<seqVars, sliceVars, editVars, inputVars, noteVars, playVars, restVars>>
    \/ UndoPopup /\ UNCHANGED <<seqVars, sliceVars, editVars, inputVars, noteVars, playVars, restVars>>
    \/ RedoPopup /\ UNCHANGED <<seqVars, sliceVars, editVars, inputVars, noteVars, playVars, restVars>>

SpecPopup == InitIdle /\ [][NextPopup]_vars

\* C12: the stack of pop-ups is at every moment the one of the position
\* reached in the history: with every action undone, in reverse order of
\* registration, it is the stack before the events; an Undo leaves the
\* stack that was there before the undone action was registered, and a
\* Redo, in forward order, the stack that its event left.
C12_PopupRoundTrip ==
    /\ popDone = <<>> => popups = <<>>
    /\ popDone # <<>> => popups = popDone[Len(popDone)].after
    /\ popUndone # <<>> => popups = popUndone[Len(popUndone)].before
    /\ \A i \in 1..Len(popDone) - 1 : popDone[i].after = popDone[i + 1].before
    /\ \A i \in 1..Len(popUndone) - 1 :
           popUndone[i + 1].after = popUndone[i].before

\* three actions (an OpenPopup, a ClosePopup by Escape or by the event, an
\* OpenPopup) were all undone, and the first one redone
C12_Witness ==
    /\ popLast = "Redo"
    /\ Len(popDone) = 1
    /\ Len(popUndone) = 2
    /\ popUndone[2].act.kind = "ClosePopup"
    /\ popUndone[1].act.kind = "OpenPopup"
    /\ popups # <<>>

\* ----------------------------------------------------------- AudioInput
\* a cut takes 0 .. MaxCut frames
MaxCut == 2

\* the values of AudioInputChanges
Changes == [reversed : BOOLEAN, cut_start : 0..MaxCut, cut_end : 0..MaxCut]

\* <[T]>::reverse
reverse(d) == [i \in 1..Len(d) |-> d[Len(d) + 1 - i]]

\* AudioBuffer::new: a buffer of `length` frames of silence in every channel
silence(length) == [c \in 1..ChannelCount |-> [i \in 1..length |-> 0]]

\* what one round of the loop of bake writes into a channel of `length`
\* frames: the channel of the raw buffer, reversed if asked for, from
\* cut_start on; copy_to_channel copies as many frames as fit
baked_channel(raw_channel, ch, length) ==
    LET d == IF ch.reversed THEN reverse(raw_channel) ELSE raw_channel
    IN  SubSeq(d, ch.cut_start + 1, ch.cut_start + length)

\* the calls of bake that may return Err: AudioBuffer::new, and for each
\* channel get_channel_data and copy_to_channel
BakeCalls ==
    {[call |-> "AudioBuffer::new", channel |-> 0]}
    \cup {[call |-> c, channel |-> i] :
             c \in {"get_channel_data", "copy_to_channel"}, i \in 1..ChannelCount}

\* the values of a u32 are 0 .. U32 - 1: its 32 bits are scaled down
U32 == 65536

\* a - b of two u32: a build with overflow checks panics when b > a, one
\* without (the release profile) wraps
u32_sub(a, b, overflow_checks) ==
    IF a.panic \/ (a.value < b /\ overflow_checks)
    THEN [value |-> 0, panic |-> TRUE]
    ELSE [value |-> (a.value - b + U32) % U32, panic |-> FALSE]

\* let length = self.raw.length() - cut_start as u32 - cut_end as u32
bake_length(in, overflow_checks) ==
    LET ch == in.pending_changes
        raw_length == [value |-> Len(in.raw[1]), panic |-> FALSE]
    IN  u32_sub(u32_sub(raw_length, ch.cut_start, overflow_checks),
                ch.cut_end, overflow_checks)

\* what a call of bake leaves of its local `length`: nothing when it
\* returns before computing it
length_of_call(in, overflow_checks) ==
    IF in.pending_changes = in.baked_changes
    THEN [computed |-> FALSE, value |-> 0, panic |-> FALSE]
    ELSE [computed |-> TRUE] @@ bake_length(in, overflow_checks)

\* AudioInput::bake where the calls in `failing` return Err; a length that
\* is 0 or has wrapped below 0 makes AudioBuffer::new return Err
bake(in, failing) ==
    LET ch == in.pending_changes
        length == Len(in.raw[1]) - ch.cut_start - ch.cut_end
        new_fails == length <= 0
                     \/ [call |-> "AudioBuffer::new", channel |-> 0] \in failing
        \* the first channel whose round fails, ChannelCount + 1 if none does
        stop == CHOOSE n \in 1..ChannelCount + 1 :
                   /\ n <= ChannelCount =>
                        \E f \in failing : f.channel = n
                   /\ \A k \in 1..n - 1 : ~\E f \in failing : f.channel = k
        filled == [c \in 1..ChannelCount |->
                      IF c < stop THEN baked_channel(in.raw[c], ch, length)
                      ELSE silence(length)[c]]
    IN  IF in.pending_changes = in.baked_changes THEN [in |-> in, res |-> "same"]
        ELSE IF new_fails THEN [in |-> in, res |-> "Err"]
        ELSE IF stop <= ChannelCount
        THEN [in |-> [in EXCEPT !.baked = filled, !.duration = length],
              res |-> "Err"]
        ELSE [in |-> [in EXCEPT !.baked = filled, !.duration = length,
                                !.baked_changes = ch],
              res |-> "Ok"]

\* AudioInput::baked: the buffer, or "None"
baked(in) ==
    IF in.pending_changes = in.baked_changes THEN in.baked ELSE "None"

\* AudioInput::baked_duration
baked_duration(in) == in.duration

\* an edit through changes_mut
Edit(ch) ==
    /\ ch # input.pending_changes
    /\ input' = [input EXCEPT !.pending_changes = ch]
    /\ bakeLast' = "edit"

\* a call of bake in which every call into the Web Audio API returns Ok
BakeOk ==
    /\ LET r == bake(input, {})
       IN  input' = r.in /\ bakeLast' = r.res
    /\ \E overflow_checks \in BOOLEAN :
           bakeLen' = length_of_call(input, overflow_checks)

\* a call of bake in which one call into the Web Audio API returns Err
BakeFail(f) ==
    /\ LET r == bake(input, {f})
       IN  input' = r.in /\ bakeLast' = r.res
    /\ \E overflow_checks \in BOOLEAN :
           bakeLen' = length_of_call(input, overflow_checks)

\* what a call of bake leaves alone
bakeFrame ==
    <<seqVars, sliceVars, editVars, popupVars, noteVars, playVars, custom, app,
      moved, editor, view, replay, borrow, ranges, nth, cblock, blockIds>>

NextInput ==
    \/ \E ch \in Changes : Edit(ch) /\ UNCHANGED <<seqVars, sliceVars, editVars, popupVars, noteVars, playVars, restVars>>
    \/ BakeOk /\ UNCHANGED bakeFrame
    \/ \E f \in BakeCalls : BakeFail(f) /\ UNCHANGED bakeFrame

SpecInput == InitIdle /\ [][NextInput]_vars

\* the buffer that applying the changes `ch` to the raw buffer gives
Applied(ch) ==
    [c \in 1..ChannelCount |->
        baked_channel(RawBuffer[c], ch, RawLen - ch.cut_start - ch.cut_end)]

\* C14: whenever pending_changes = baked_changes, baked() is the raw buffer
\* with exactly those changes applied and baked_duration() its duration;
\* after a bake that failed, baked() is None.
C14_BakedIsValid ==
    /\ input.pending_changes = input.baked_changes
          => /\ baked(input) = Applied(input.baked_changes)
             /\ baked_duration(input) = Len(Applied(input.baked_changes)[1])
    /\ bakeLast = "Err" => input.pending_changes # input.baked_changes

\* ----------------------------------------------- Note (sound/mod.rs)
\* the right-hand sides tried are -MaxRhs .. MaxRhs and the values around
\* the ends of each integer type
MaxRhs == 3

\* Note::N_NOTES
N_NOTES == 36
\* Note::MAX and Note::MID, as indices
MAX == N_NOTES - 1
MID == N_NOTES \div 2

\* the integer types: i8 and u8 take the arms `id` and `try_neg` of
\* convert_rhs!, i16 and u16 the arms `try_from` and `try_neg_from`, as
\* i32, isize, i64 and u32, usize, u64 do
IntTypes == {"i8", "i16", "u8", "u16"}
Signed(ty) == ty \in {"i8", "i16"}
Bits(ty) == IF ty \in {"i8", "u8"} THEN 8 ELSE 16
IntMin(ty) == IF Signed(ty) THEN 0 - 2 ^ (Bits(ty) - 1) ELSE 0
IntMax(ty) == IF Signed(ty) THEN 2 ^ (Bits(ty) - 1) - 1 ELSE 2 ^ Bits(ty) - 1

\* T::checked_neg of a signed type
checked_neg(ty, k) == IF k = IntMin(ty) THEN None ELSE Some(0 - k)

\* TryInto::try_into(..).ok()
try_into(k, ty) == IF k >= IntMin(ty) /\ k <= IntMax(ty) THEN Some(k) ELSE None

\* u8::checked_add_signed, u8::checked_add, u8::checked_sub
checked_add_signed(a, b) == try_into(a + b, "u8")
checked_add(a, b) == try_into(a + b, "u8")
checked_sub(a, b) == try_into(a - b, "u8")

\* a defect: the index is not checked
Note_new_any(index) == Some(index)

\* Note::new
Note_new(index) == IF index <= MAX THEN Some(index) ELSE None

\* `?` on an Option: f is applied to the value of a Some
and_then(o, f(_)) == IF o.some THEN f(o.v) ELSE None

\* impl Add<ty> for Note (impl_arith!), on the note of index i
Note_add(i, ty, k) ==
    LET rhs == IF ty \in {"i8", "u8"} THEN Some(k)
               ELSE try_into(k, IF Signed(ty) THEN "i8" ELSE "u8")
        sum(r) == IF Signed(ty) THEN checked_add_signed(i, r) ELSE checked_add(i, r)
    IN  and_then(and_then(rhs, sum), Note_new)

\* impl Sub<ty> for Note (impl_arith!), on the note of index i
Note_sub(i, ty, k) ==
    LET to_i8(r) == try_into(r, "i8")
        rhs == IF ty = "i8" THEN checked_neg(ty, k)
               ELSE IF ty = "i16" THEN and_then(checked_neg(ty, k), to_i8)
               ELSE IF ty = "u8" THEN Some(k)
               ELSE try_into(k, "u8")
        diff(r) == IF Signed(ty) THEN checked_add_signed(i, r) ELSE checked_sub(i, r)
    IN  and_then(and_then(rhs, diff), Note_new)

\* Note::recip, on the note of index i
Note_recip(i) == MAX - i

\* the right-hand sides of type ty that are tried
Rhs(ty) ==
    {k \in (0 - MaxRhs..MaxRhs)
           \cup {IntMin(ty), IntMin(ty) + 1, IntMax(ty) - 1, IntMax(ty)}
           \cup {0 - 129, 0 - 128, 0 - 127, 127, 128, 129, 255, 256} :
        k >= IntMin(ty) /\ k <= IntMax(ty)}

\* the note held after a call: the result if it is a note, else the old one
Held(res) == IF res.some THEN res.v ELSE noteCalc.cur

\* Note::new(index) for a u8
CallNew(index) ==
    noteCalc' = [op |-> "new", index |-> index, ty |-> "u8", rhs |-> 0,
                 res |-> Note_new(index), back |-> 0,
                 cur |-> Held(Note_new(index))]

\* note + k, for the note held
CallAdd(ty, k) ==
    LET i == noteCalc.cur
    IN  noteCalc' = [op |-> "add", index |-> i, ty |-> ty, rhs |-> k,
                     res |-> Note_add(i, ty, k), back |-> 0,
                     cur |-> Held(Note_add(i, ty, k))]

\* note - k, for the note held
CallSub(ty, k) ==
    LET i == noteCalc.cur
    IN  noteCalc' = [op |-> "sub", index |-> i, ty |-> ty, rhs |-> k,
                     res |-> Note_sub(i, ty, k), back |-> 0,
                     cur |-> Held(Note_sub(i, ty, k))]

\* note.recip() and note.recip().recip(), for the note held
CallRecip ==
    LET i == noteCalc.cur
    IN  noteCalc' = [op |-> "recip", index |-> i, ty |-> "u8", rhs |-> 0,
                     res |-> Some(Note_recip(i)),
                     back |-> Note_recip(Note_recip(i)),
                     cur |-> Note_recip(i)]

NextNote ==
    \/ \E index \in 0..IntMax("u8") :
           CallNew(index) /\ UNCHANGED <<seqVars, sliceVars, editVars, popupVars, inputVars, oldNote, playVars, restVars>>
    \/ \E ty \in IntTypes : \E k \in Rhs(ty) :
           CallAdd(ty, k) /\ UNCHANGED <<seqVars, sliceVars, editVars, popupVars, inputVars, oldNote, playVars, restVars>>
    \/ \E ty \in IntTypes : \E k \in Rhs(ty) :
           CallSub(ty, k) /\ UNCHANGED <<seqVars, sliceVars, editVars, popupVars, inputVars, oldNote, playVars, restVars>>
    \/ CallRecip /\ UNCHANGED <<seqVars, sliceVars, editVars, popupVars, inputVars, oldNote, playVars, restVars>>

SpecNote == InitIdle /\ [][NextNote]_vars

\* the note of index x if x is the index of a note, None if not
NoteIfValid(x) == IF x >= 0 /\ x <= 35 THEN Some(x) ELSE None

\* C15: Note::new(i) is a note iff 0 <= i <= 35; note i + k is the note
\* i + k iff 0 <= i + k <= 35 and None otherwise, note i - k likewise with
\* i - k, for k of every integer type; recip is its own inverse.
C15_CheckedArithmetic ==
    /\ noteCalc.op = "new" => noteCalc.res = NoteIfValid(noteCalc.index)
    /\ noteCalc.op = "add"
          => noteCalc.res = NoteIfValid(noteCalc.index + noteCalc.rhs)
    /\ noteCalc.op = "sub"
          => noteCalc.res = NoteIfValid(noteCalc.index - noteCalc.rhs)
    /\ noteCalc.op = "recip"
          => /\ noteCalc.back = noteCalc.index
             /\ noteCalc.res = NoteIfValid(35 - noteCalc.index)

\* the least i8 was subtracted, which checked_neg cannot negate
C15_Witness ==
    /\ noteCalc.op = "sub"
    /\ noteCalc.ty = "i8"
    /\ noteCalc.rhs = 0 - 128
    /\ noteCalc.res = None

\* ----------------------------------------------- Note (src/src/sound.rs)
\* Note::from_index is tried with 0 .. MaxIndex
MaxIndex == 40

\* Note::MAX (its index) and Note::N_NOTES = Self::FREQS.len()
Old_MAX == 35
Old_N_NOTES == 36

\* the least of two numbers, and Ord::clamp
min(a, b) == IF a < b THEN a ELSE b
clamp(x, lo, hi) == IF x < lo THEN lo ELSE IF x > hi THEN hi ELSE x

\* usize::saturating_add_signed, for sums far below usize::MAX
saturating_add_signed(a, b) == IF a + b < 0 THEN 0 ELSE a + b

\* Note::from_index
from_index(value) == IF value >= Old_N_NOTES THEN Old_MAX ELSE value

\* impl Add<isize> for Note and impl AddAssign<isize> for Note: the index
old_add(i, rhs) == min(saturating_add_signed(i, rhs), Old_N_NOTES) % 256

\* impl Sub<isize> for Note and impl SubAssign<isize> for Note: the index
old_sub(i, rhs) == clamp(i - rhs, 0, Old_N_NOTES) % 256

\* Note::recip in a build without overflow checks: u8 wraps
old_recip(i) == (Old_MAX - i) % 256

FromIndex(value) == oldNote' = [index |-> from_index(value), op |-> "from_index"]

\* note + rhs, note += rhs
OldAdd(rhs) == oldNote' = [index |-> old_add(oldNote.index, rhs), op |-> "add"]
OldAddAssign(rhs) ==
    oldNote' = [index |-> old_add(oldNote.index, rhs), op |-> "add_assign"]

\* note - rhs, note -= rhs
OldSub(rhs) == oldNote' = [index |-> old_sub(oldNote.index, rhs), op |-> "sub"]
OldSubAssign(rhs) ==
    oldNote' = [index |-> old_sub(oldNote.index, rhs), op |-> "sub_assign"]

\* note.recip(): MAX.0 - self.0 overflows for an index above MAX, which
\* panics in a build with overflow checks and wraps in one without
OldRecip ==
    \/ oldNote' = [index |-> old_recip(oldNote.index), op |-> "recip"]
    \/ /\ oldNote.index > Old_MAX
       /\ oldNote' = [index |-> oldNote.index, op |-> "recip panicked"]

NextOldNote ==
    \/ \E v \in 0..MaxIndex :
           FromIndex(v) /\ UNCHANGED <<seqVars, sliceVars, editVars, popupVars, inputVars, noteCalc, playVars, restVars>>
    \/ \E k \in 0 - MaxRhs..MaxRhs :
           OldAdd(k) /\ UNCHANGED <<seqVars, sliceVars, editVars, popupVars, inputVars, noteCalc, playVars, restVars>>
    \/ \E k \in 0 - MaxRhs..MaxRhs :
           OldAddAssign(k) /\ UNCHANGED <<seqVars, sliceVars, editVars, popupVars, inputVars, noteCalc, playVars, restVars>>
    \/ \E k \in 0 - MaxRhs..MaxRhs :
           OldSub(k) /\ UNCHANGED <<seqVars, sliceVars, editVars, popupVars, inputVars, noteCalc, playVars, restVars>>
    \/ \E k \in 0 - MaxRhs..MaxRhs :
           OldSubAssign(k) /\ UNCHANGED <<seqVars, sliceVars, editVars, popupVars, inputVars, noteCalc, playVars, restVars>>
    \/ OldRecip /\ UNCHANGED <<seqVars, sliceVars, editVars, popupVars, inputVars, noteCalc, playVars, restVars>>

SpecOldNote == InitIdle /\ [][NextOldNote]_vars

\* C16: every Note made by from_index, +, -, +=, -= and recip from valid
\* notes has an index in 0 .. 35, inside the tables of 36 entries.
C16_IndexInTable == oldNote.index >= 0 /\ oldNote.index <= 35

(***************************************************************************)
(* NoteSound::play and the length of a Note sound.                         *)
(*                                                                         *)
(* Beats and seconds are counted in tenths, gain levels in whole units and *)
(* frequencies in hundredths of a hertz.  Every beat value the model uses  *)
(* is a multiple of every bps it uses, so that the division of to_secs is  *)
(* the exact one.                                                          *)
(***************************************************************************)
MaxRep == 3
MaxLevel == 1

FREQS ==
    << 6541,  6930,  7342,  7778,  8241,  8731,  9250,  9800, 10383, 11000,
      11654, 12347, 13081, 13859, 14683, 15556, 16481, 17461, 18500, 19600,
      20765, 22000, 23308, 24694, 26163, 27718, 29366, 31113, 32963, 34923,
      36999, 39200, 41530, 44000, 46616, 49388>>

freq_index(value) == value

freq(value) == FREQS[value + 1]

PlayBlock(offset, value, len) ==
    [offset |-> offset, value |-> value, len |-> len]

to_secs_times(beats, bps) == beats * bps

to_secs(beats, bps) == beats \div bps

Api(node, call, value, at) ==
    [node |-> node, call |-> call, value |-> value, at |-> at]

\* the body of the inner loop of play: the calls made for one block
play_block(snd, start, blk, bps, node) ==
    LET at1 == start + to_secs(snd.attack, bps)
        at2 == at1 + to_secs(snd.decay, bps)
        sus == snd.sustain * snd.volume
        at3 == start + to_secs(blk.len, bps)
    IN  << Api(node, "create_gain", 0, 0),
           Api(node, "set_value_at_time", 0, start),
           Api(node, "linear_ramp_to_value_at_time", snd.volume, at1),
           Api(node, "linear_ramp_to_value_at_time", sus, at2),
           Api(node, "set_value_at_time", sus, at3 - to_secs(snd.release, bps)),
           Api(node, "linear_ramp_to_value_at_time", 0, at3),
           Api(node, "create_oscillator", 0, 0),
           Api(node, "frequency.set_value", freq(blk.value), 0),
           Api(node, "connect", 0, 0),
           Api(node, "start_with_when", 0, start),
           Api(node, "stop_with_when", 0, at3),
           Api(node, "set_onended", 0, 0) >>

reps_once(snd) == 1

reps(snd) == snd.rep_count

\* the two loops of play from the k-th (repetition, block) pair on
RECURSIVE play_from(_, _, _, _, _)
play_from(snd, at_now, self_offset, bps, k) ==
    LET pat == snd.pattern
        n == Len(pat)
        last == pat[n]
        pat_len == to_secs(last.offset + last.len, bps)
        rep == k \div n
        blk == pat[(k % n) + 1]
        start == at_now + self_offset + pat_len * rep + to_secs(blk.offset, bps)
    IN  IF k >= n * reps(snd) THEN <<>>
        ELSE play_block(snd, start, blk, bps, k + 1)
             \o play_from(snd, at_now, self_offset, bps, k + 1)

play(snd, at_now, self_offset, bps) ==
    IF snd.pattern = <<>> THEN <<>>
    ELSE play_from(snd, at_now, self_offset, bps, 0)

\* NoteSound::len
NoteSound_len(pat) ==
    IF pat = <<>> THEN 0
    ELSE pat[Len(pat)].offset + pat[Len(pat)].len

\* what last_unchecked can read behind an empty pattern
GarbageBlocks == {PlayBlock(o, 0, l) : o \in {0, 6}, l \in {0, 2}}

\* Sound::len of the Note sound of src/src/sound.rs: the set of its outcomes
Sound_len(pat) ==
    IF pat = <<>> THEN {x.offset + x.len : x \in GarbageBlocks}
    ELSE {pat[Len(pat)].offset + pat[Len(pat)].len}

PlayPatterns ==
    { <<>>,
      <<PlayBlock(0, MID, 10)>>,
      <<PlayBlock(0, MID, 10), PlayBlock(10, 0, 10)>>,
      <<PlayBlock(0, MAX, 4), PlayBlock(2, 5, 6)>> }

PlayValues(field) ==
    CASE field = "pattern" -> PlayPatterns
      [] field \in {"volume", "sustain"} -> 0 .. MaxLevel
      [] field \in {"attack", "decay", "release"} -> {0, 2}
      [] field = "rep_count" -> 1 .. MaxRep

\* an edit of the sound between two plays
SetSound(field, to) ==
    /\ to /= player.sound[field]
    /\ player' = [player EXCEPT !.sound[field] = to, !.sched = <<>>,
                                !.step = "set", !.len = 0, !.old_len = 0]
    /\ UNCHANGED <<seqVars, sliceVars, editVars, popupVars, inputVars, noteVars, restVars>>

\* the context play is called in
SetCtx(at_now, self_offset, bps) ==
    /\ <<at_now, self_offset, bps>>
         /= <<player.now, player.self_offset, player.bps>>
    /\ player' = [player EXCEPT !.now = at_now, !.self_offset = self_offset,
                                !.bps = bps, !.sched = <<>>, !.step = "ctx",
                                !.len = 0, !.old_len = 0]
    /\ UNCHANGED <<seqVars, sliceVars, editVars, popupVars, inputVars, noteVars, restVars>>

Play ==
    /\ player.step /= "play"
    /\ player' = [player EXCEPT
                    !.sched = play(player.sound, player.now,
                                   player.self_offset, player.bps),
                    !.step = "play"]
    /\ UNCHANGED <<seqVars, sliceVars, editVars, popupVars, inputVars, noteVars, restVars>>

\* the length of the sound, asked of both versions of the Note sound
SoundLen ==
    /\ player.step /= "len"
    /\ \E old \in Sound_len(player.sound.pattern) :
         player' = [player EXCEPT !.len = NoteSound_len(player.sound.pattern),
                                  !.old_len = old, !.step = "len",
                                  !.sched = <<>>]
    /\ UNCHANGED <<seqVars, sliceVars, editVars, popupVars, inputVars, noteVars, restVars>>

NextPlay ==
    \/ \E field \in {"pattern", "volume", "sustain", "attack", "decay",
                     "release", "rep_count"} :
         \E to \in PlayValues(field) : SetSound(field, to)
    \/ \E at_now \in {0, 100}, self_offset \in {0, 4}, bps \in {1, 2} :
         SetCtx(at_now, self_offset, bps)
    \/ Play
    \/ SoundLen

SpecPlay == InitIdle /\ [][NextPlay]_vars

\* the k-th (repetition, block) pair's calls in what play did
Calls(k) == SubSeq(player.sched, 12 * k + 1, 12 * k + 12)

Played == player.step = "play"

CountCalls(call) ==
    Cardinality({i \in 1 .. Len(player.sched) : player.sched[i].call = call})

\* C17: play schedules, for each repetition r and each block, with
\* start = now + self_offset + r*pattern_len + offset/bps: gain 0 at start, a
\* linear ramp to volume at start+attack, a linear ramp to sustain*volume at
\* start+attack+decay, a step to sustain*volume at start+len-release, a
\* linear ramp to 0 at start+len, and an oscillator at value.freq() started
\* at start and stopped at start+len, the beats divided by bps.
C17_Envelope ==
    Played =>
      LET snd == player.sound
          pat == snd.pattern
          n == Len(pat)
          bps == player.bps
      IN  /\ Len(player.sched) = 12 * n * snd.rep_count
          /\ \A r \in 0 .. snd.rep_count - 1 : \A i \in 1 .. n :
               LET c == Calls(r * n + i - 1)
                   pattern_len == (pat[n].offset + pat[n].len) \div bps
                   start == player.now + player.self_offset
                            + r * pattern_len + pat[i].offset \div bps
                   len == pat[i].len \div bps
               IN  /\ c[2].call = "set_value_at_time"
                   /\ <<c[2].value, c[2].at>> = <<0, start>>
                   /\ c[3].call = "linear_ramp_to_value_at_time"
                   /\ <<c[3].value, c[3].at>>
                        = <<snd.volume, start + snd.attack \div bps>>
                   /\ c[4].call = "linear_ramp_to_value_at_time"
                   /\ <<c[4].value, c[4].at>>
                        = <<snd.sustain * snd.volume,
                            start + snd.attack \div bps + snd.decay \div bps>>
                   /\ c[5].call = "set_value_at_time"
                   /\ <<c[5].value, c[5].at>>
                        = <<snd.sustain * snd.volume,
                            start + len - snd.release \div bps>>
                   /\ c[6].call = "linear_ramp_to_value_at_time"
                   /\ <<c[6].value, c[6].at>> = <<0, start + len>>
                   /\ c[8].call = "frequency.set_value"
                   /\ c[8].value = FREQS[pat[i].value + 1]
                   /\ c[10].call = "start_with_when" /\ c[10].at = start
                   /\ c[11].call = "stop_with_when" /\ c[11].at = start + len
                   /\ \A j \in 1 .. 12 : c[j].node = c[1].node

C17_Witness ==
    /\ Played
    /\ Len(player.sound.pattern) = 2
    /\ player.sound.rep_count = 3
    /\ player.bps = 2
    /\ player.sound.attack = 2 /\ player.sound.decay = 2
    /\ player.sound.release = 2
    /\ player.sound.volume = 1 /\ player.sound.sustain = 0
    /\ player.self_offset = 4 /\ player.now = 100
    /\ Len(player.sched) = 72

\* the scenario: one block {offset 0, len 1 beat, value Note::MID}, bps = 2,
\* volume 1, attack = decay = release = 0, sustain 1, rep_count 1, t = 10 s
Scenario ==
    /\ Played
    /\ player.sound = [pattern |-> <<PlayBlock(0, MID, 10)>>, volume |-> 1,
                       attack |-> 0, decay |-> 0, sustain |-> 1,
                       release |-> 0, rep_count |-> 1]
    /\ player.now = 100 /\ player.self_offset = 0 /\ player.bps = 2

\* the gain events play scheduled, as <<value, time>>, and the oscillator's
GainEvents ==
    {<<player.sched[i].value, player.sched[i].at>> :
       i \in {j \in 1 .. Len(player.sched) :
                player.sched[j].call \in {"set_value_at_time",
                                          "linear_ramp_to_value_at_time"}}}

OscCalls(call) ==
    {<<player.sched[i].value, player.sched[i].at>> :
       i \in {j \in 1 .. Len(player.sched) : player.sched[j].call = call}}

\* C18 as stated: in the scenario play schedules gain events at t=10 (to 1),
\* t=10.5 (to 1) and t=10.5 (to 0), and an oscillator of 261.63 Hz started
\* at 10 and stopped at 10.5.
C18_ScenarioMiddleC ==
    Scenario =>
      /\ {<<1, 100>>, <<1, 105>>, <<0, 105>>} \subseteq GainEvents
      /\ OscCalls("frequency.set_value") = {<<26163, 0>>}
      /\ OscCalls("start_with_when") = {<<0, 100>>}
      /\ OscCalls("stop_with_when") = {<<0, 105>>}

\* C18, amended: in the scenario play schedules gain 0 at t=10, two linear
\* ramps to 1 at t=10, a step to 1 at t=10.5 and a linear ramp to 0 at
\* t=10.5, and an oscillator of Note::MID.freq() = FREQS[18] = 185.00 Hz,
\* started at 10 and stopped at 10.5.
C18_ScenarioMid ==
    Scenario =>
      /\ MID = 18
      /\ Len(player.sched) = 12
      /\ SubSeq(player.sched, 2, 6)
           = << Api(1, "set_value_at_time", 0, 100),
                Api(1, "linear_ramp_to_value_at_time", 1, 100),
                Api(1, "linear_ramp_to_value_at_time", 1, 100),
                Api(1, "set_value_at_time", 1, 105),
                Api(1, "linear_ramp_to_value_at_time", 0, 105) >>
      /\ OscCalls("frequency.set_value") = {<<18500, 0>>}
      /\ OscCalls("start_with_when") = {<<0, 100>>}
      /\ OscCalls("stop_with_when") = {<<0, 105>>}

C18_Witness == Scenario /\ Len(player.sched) = 12

\* positions in what play did of the calls of one kind, in order
RECURSIVE PositionsFrom(_, _)
PositionsFrom(call, i) ==
    IF i > Len(player.sched) THEN <<>>
    ELSE (IF player.sched[i].call = call THEN <<i>> ELSE <<>>)
         \o PositionsFrom(call, i + 1)

Positions(call) == PositionsFrom(call, 1)

C20_LengthOfNoteSound ==
    player.step = "len" =>
      LET pat == player.sound.pattern
          length == IF pat = <<>> THEN 0
                    ELSE pat[Len(pat)].offset + pat[Len(pat)].len
      IN  player.len = length /\ player.old_len = length

(***************************************************************************)
(* CustomSound::play.                                                      *)
(*                                                                         *)
(* Seconds and beats are counted in tenths, speed and playback rate in     *)
(* hundredths.  pitch_coef is 2^((index - MID) / 12); the model uses the   *)
(* pitches a whole number of octaves from MID, where it is the exact ratio *)
(* num / den of two powers of two.                                         *)
(***************************************************************************)
CustomBlock(offset, pitch) == [offset |-> offset, pitch |-> pitch]

RECURSIVE exp2(_)
exp2(k) == IF k = 0 THEN 1 ELSE 2 * exp2(k - 1)

pitch_coef_one(index) == [num |-> 1, den |-> 1]

\* Note::pitch_coef, as the ratio num / den
pitch_coef(index) ==
    IF index >= MID
    THEN [num |-> exp2((index - MID) \div 12), den |-> 1]
    ELSE [num |-> 1, den |-> exp2((MID - index) \div 12)]

\* R64 / coef and R32 * coef
div_coef(x, coef) == (x * coef.den) \div coef.num
mul_coef(x, coef) == (x * coef.num) \div coef.den

\* baked_duration / speed, the speed counted in hundredths
div_speed(duration, speed) == (duration * 100) \div speed

\* the body of the inner loop of play: the calls made for one block
custom_play_block(snd, start, len, blk, bps, node) ==
    LET coef == pitch_coef(blk.pitch)
        at1 == start + to_secs(snd.attack, bps)
        at2 == at1 + to_secs(snd.decay, bps)
        sus == snd.sustain * snd.volume
        at3 == start + div_coef(len, coef)
    IN  << Api(node, "create_gain", 0, 0),
           Api(node, "set_value", 0, 0),
           Api(node, "linear_ramp_to_value_at_time", snd.volume, at1),
           Api(node, "linear_ramp_to_value_at_time", sus, at2),
           Api(node, "set_value_at_time", sus, at3 - to_secs(snd.release, bps)),
           Api(node, "linear_ramp_to_value_at_time", 0, at3),
           Api(node, "create_buffer_source", 0, 0),
           Api(node, "set_buffer", snd.src.v, 0),
           Api(node, "playback_rate.set_value", mul_coef(snd.speed, coef), 0),
           Api(node, "connect", 0, 0),
           Api(node, "start_with_when", 0, start),
           Api(node, "set_onended", 0, 0) >>

\* the two loops of play from the k-th (repetition, block) pair on
RECURSIVE custom_play_from(_, _, _, _, _)
custom_play_from(snd, at_now, self_offset, bps, k) ==
    LET pat == snd.pattern
        n == Len(pat)
        last == pat[n]
        len == div_speed(snd.src.v, snd.speed)
        pat_len == to_secs(last.offset, bps)
                   + div_coef(len, pitch_coef(last.pitch))
        rep == k \div n
        blk == pat[(k % n) + 1]
        start == at_now + self_offset + pat_len * rep + to_secs(blk.offset, bps)
    IN  IF k >= n * snd.rep_count THEN <<>>
        ELSE custom_play_block(snd, start, len, blk, bps, k + 1)
             \o custom_play_from(snd, at_now, self_offset, bps, k + 1)

custom_play(snd, at_now, self_offset, bps) ==
    IF ~snd.src.some \/ snd.pattern = <<>> THEN <<>>
    ELSE custom_play_from(snd, at_now, self_offset, bps, 0)

CustomPatterns ==
    { <<>>,
      <<CustomBlock(0, MID)>>,
      <<CustomBlock(0, MID + 12)>>,
      <<CustomBlock(0, MID - 12), CustomBlock(4, MID + 12)>> }

CustomValues(field) ==
    CASE field = "pattern" -> CustomPatterns
      [] field = "src" -> {None, Some(20), Some(40)}
      [] field = "speed" -> {100, 200}
      [] field \in {"attack", "release"} -> {0, 2}
      [] field = "rep_count" -> 1 .. MaxRep

\* an edit of the sound between two plays
SetCustom(field, to) ==
    /\ to /= custom.sound[field]
    /\ custom' = [custom EXCEPT !.sound[field] = to, !.sched = <<>>,
                                !.step = "set"]
    /\ UNCHANGED except_custom

\* the context play is called in
SetCustomCtx(at_now, self_offset, bps) ==
    /\ <<at_now, self_offset, bps>>
         /= <<custom.now, custom.self_offset, custom.bps>>
    /\ custom' = [custom EXCEPT !.now = at_now, !.self_offset = self_offset,
                                !.bps = bps, !.sched = <<>>, !.step = "ctx"]
    /\ UNCHANGED except_custom

CustomPlay ==
    /\ custom.step /= "play"
    /\ custom' = [custom EXCEPT
                    !.sched = custom_play(custom.sound, custom.now,
                                          custom.self_offset, custom.bps),
                    !.step = "play"]
    /\ UNCHANGED except_custom

NextCustom ==
    \/ \E field \in {"pattern", "src", "speed", "attack", "release",
                     "rep_count"} :
         \E to \in CustomValues(field) : SetCustom(field, to)
    \/ \E at_now \in {0, 100}, self_offset \in {0, 4}, bps \in {1, 2} :
         SetCustomCtx(at_now, self_offset, bps)
    \/ CustomPlay

SpecCustom == InitIdle /\ [][NextCustom]_vars

CustomCalls(k) == SubSeq(custom.sched, 12 * k + 1, 12 * k + 12)

\* C21: play gives every CustomBlock the block length
\* baked_duration / speed / pitch_coef and the playback_rate
\* speed * pitch_coef; for baked_duration = 4 s, speed = 2 and pitch MID+12
\* the block length is 1 s and the playback_rate is 4.
C21_LengthAndRate ==
    (custom.step = "play" /\ custom.sound.src.some) =>
      LET snd == custom.sound
          n == Len(snd.pattern)
      IN  /\ Len(custom.sched) = 12 * n * snd.rep_count
          /\ \A k \in 0 .. n * snd.rep_count - 1 :
               LET c == CustomCalls(k)
                   pitch == snd.pattern[(k % n) + 1].pitch
                   octaves == (pitch - 18) \div 12
                   \* baked_duration / speed / coef and speed * coef
                   length == IF octaves >= 0
                             THEN ((snd.src.v * 100) \div snd.speed)
                                    \div exp2(octaves)
                             ELSE ((snd.src.v * 100) \div snd.speed)
                                    * exp2(-octaves)
                   rate == IF octaves >= 0 THEN snd.speed * exp2(octaves)
                           ELSE snd.speed \div exp2(-octaves)
               IN  /\ c[11].call = "start_with_when"
                   /\ c[6].call = "linear_ramp_to_value_at_time"
                   /\ c[6].value = 0
                   /\ c[6].at - c[11].at = length
                   /\ c[9].call = "playback_rate.set_value"
                   /\ c[9].value = rate
                   /\ (snd.src.v = 40 /\ snd.speed = 200 /\ pitch = 30)
                        => (length = 10 /\ rate = 400)

C21_Witness ==
    /\ custom.step = "play"
    /\ custom.sound.src = Some(40)
    /\ custom.sound.speed = 200
    /\ custom.sound.pattern = <<CustomBlock(0, 30)>>
    /\ Len(custom.sched) >= 12
    /\ custom.sched[6].at - custom.sched[11].at = 10
    /\ custom.sched[9].value = 400

(***************************************************************************)
(* The top-level callbacks App::update and Main::update and the reporting  *)
(* of their errors.  A callback's fallible steps either all succeed or the *)
(* first failing one, `fail`, ends the fallible block with an error.       *)
(***************************************************************************)
MaxErrors == 2

AppMsgs ==
    {"Frame", "StartPlay", "StopPlay", "Escape", "OpenPopup", "ClosePopup",
     "UndoOpenPopup", "UndoClosePopup", "RedoOpenPopup", "RedoClosePopup",
     "Other"}

AppFails ==
    {"none", "get_mut", "request_animation_frame", "register_action",
     "project.handle_event", "popup.handle_event"}

\* the outcome of a fallible block: the fields it leaves and its result
Outcome(a, ok, ret) == [app |-> a, ok |-> ok, ret |-> ret]

\* the tail of the fallible block of App::update, after the match
app_update_tail(a, fail) ==
    IF fail = "project.handle_event" THEN Outcome(a, FALSE, FALSE)
    ELSE IF a.popups > 0 /\ fail = "popup.handle_event"
    THEN Outcome(a, FALSE, FALSE)
    ELSE Outcome([a EXCEPT !.rerender_needed = FALSE], TRUE,
                 a.rerender_needed)

\* the fallible block of App::update
app_update_block(a, msg, fail) ==
    IF fail = "get_mut" THEN Outcome(a, FALSE, FALSE)
    ELSE CASE msg = "Frame" ->
                IF fail = "request_animation_frame"
                THEN Outcome(a, FALSE, FALSE)
                ELSE app_update_tail(a, fail)
           [] msg \in {"StartPlay", "StopPlay"} ->
                app_update_tail([a EXCEPT !.rerender_needed = TRUE], fail)
           [] msg = "Escape" ->
                IF a.popups > 0
                THEN LET b == [a EXCEPT !.popups = a.popups - 1]
                     IN  IF fail = "register_action"
                         THEN Outcome(b, FALSE, FALSE)
                         ELSE app_update_tail(b, fail)
                ELSE app_update_tail(a, fail)
           [] msg = "OpenPopup" ->
                IF fail = "register_action" THEN Outcome(a, FALSE, FALSE)
                ELSE app_update_tail([a EXCEPT !.popups = a.popups + 1], fail)
           [] msg = "ClosePopup" ->
                IF a.popups = 0 THEN Outcome(a, FALSE, FALSE)
                ELSE LET b == [a EXCEPT !.popups = a.popups - 1]
                     IN  IF fail = "register_action"
                         THEN Outcome(b, FALSE, FALSE)
                         ELSE app_update_tail(b, fail)
           [] msg \in {"UndoOpenPopup", "RedoClosePopup"} ->
                app_update_tail(
                    [a EXCEPT !.popups = IF a.popups > 0 THEN a.popups - 1
                                         ELSE 0], fail)
           [] msg \in {"UndoClosePopup", "RedoOpenPopup"} ->
                app_update_tail([a EXCEPT !.popups = a.popups + 1], fail)
           [] OTHER -> app_update_tail(a, fail)

report_err_silent(a) == [a EXCEPT !.logged = a.logged + 1]

\* report_err: warn on the console and show #error-sign
report_err(a) == [a EXCEPT !.logged = a.logged + 1, !.hidden = FALSE]

\* App::update: fallible! { .. }.report(); false
App_update(a, msg, fail) ==
    LET o == app_update_block(a, msg, fail)
    IN  IF o.ok THEN Outcome(o.app, TRUE, o.ret)
        ELSE Outcome(report_err(o.app), FALSE, FALSE)

MainCmds ==
    {"Drag", "Focus", "Unfocus", "LeavePlane", "SetDesc", "RemoveDesc",
     "SetParam", "TryConnect", "Select", "Start", "End", "ReportError"}

\* on_new_error of Main::update
on_new_error(a) ==
    [a EXCEPT !.error_count = a.error_count + 1, !.logged = a.logged + 1]

\* Main::update: the js_try block fails (`failing`) or runs to its end
Main_update(a, msg, failing) ==
    IF msg = "ReportError" \/ failing THEN Outcome(on_new_error(a), FALSE, TRUE)
    ELSE Outcome(a, TRUE, msg = "Select")

\* the messages whose handling fails at `fail` without any injected fault
AppFailsAt(a, msg, fail) ==
    LET o == app_update_block(a, msg, fail) IN ~o.ok

AppUpdate(msg, fail) ==
    /\ app.popups < MaxDepth \/ msg \notin {"OpenPopup", "UndoClosePopup",
                                            "RedoOpenPopup"}
    /\ AppFailsAt(app, msg, fail) => app.logged < MaxErrors
    /\ LET o == App_update(app, msg, fail)
       IN  app' = [o.app EXCEPT !.last = [comp |-> "App", msg |-> msg,
                                          failed |-> ~o.ok, ret |-> o.ret]]
    /\ UNCHANGED except_app

MainUpdate(msg, failing) ==
    /\ (msg = "ReportError" \/ failing) => app.logged < MaxErrors
    /\ LET o == Main_update(app, msg, failing)
       IN  app' = [o.app EXCEPT !.last = [comp |-> "Main", msg |-> msg,
                                          failed |-> ~o.ok, ret |-> o.ret]]
    /\ UNCHANGED except_app

NextApp ==
    \/ \E msg \in AppMsgs, fail \in AppFails : AppUpdate(msg, fail)
    \/ \E msg \in MainCmds, failing \in BOOLEAN : MainUpdate(msg, failing)

SpecApp == InitIdle /\ [][NextApp]_vars

\* C22: whenever a step inside App::update or Main::update fails, the
\* callback still returns normally, the error is logged, and the error
\* indicator becomes visible; once visible it stays visible and the error
\* count never decreases.
C22_ErrorsStayInside ==
    [][ /\ app'.last.ret \in BOOLEAN
        /\ app'.last.failed =>
             /\ app'.logged = app.logged + 1
             /\ app'.last.comp = "App" => ~app'.hidden
             /\ app'.last.comp = "Main" => app'.error_count > 0
        /\ ~app.hidden => ~app'.hidden
        /\ app'.error_count >= app.error_count
        /\ app'.logged >= app.logged ]_vars

\* an App::update that failed was followed by one that did not
C22_Witness ==
    /\ app.last.comp = "App" /\ ~app.last.failed
    /\ app.logged = 2 /\ ~app.hidden
    /\ app.error_count = 1

(***************************************************************************)
(* The sequencer with an audio backend that can fail: in each Frame at     *)
(* most one poll, the one numbered `fail`, returns Err.                    *)
(***************************************************************************)
MaxFail == 2

NextFault ==
    \/ \E g \in Garbage : StartPlay(g) /\ UNCHANGED <<sliceVars, laterVars>>
    \/ StopPlay /\ UNCHANGED <<sliceVars, laterVars>>
    \/ \E t \in 0..MaxTime, g \in Garbage, fail \in 0..MaxFail :
         FrameWith(t, g, fail) /\ UNCHANGED <<sliceVars, laterVars>>

SpecFault == Init /\ [][NextFault]_vars

PolledEvents == {frPolled[i].ev : i \in 1 .. Len(frPolled)}
PendingEvents == {pending[i] : i \in 1 .. Len(pending)}

\* C23: if polling one due event fails during a Frame, only that event is
\* lost: every other event that was due in that Frame has been polled or is
\* still queued to be polled, and the events not yet due stay in `pending`.
C23_OnlyFailedEventLost ==
    (lastEv = "Frame" /\ frErr) =>
      \A i \in 1 .. Len(frBefore) :
        IF when(frBefore[i]) <= frNow
        THEN frBefore[i] \in PolledEvents \cup PendingEvents
        ELSE frBefore[i] \in PendingEvents

\* the part of C23 that the code meets: events not yet due stay in `pending`
NotDueStay ==
    (lastEv = "Frame" /\ frErr) =>
      \A i \in 1 .. Len(frBefore) :
        when(frBefore[i]) > frNow => frBefore[i] \in PendingEvents

(***************************************************************************)
(* NoteBlock::move (GraphPoint), offsets and lengths in whole beats.       *)
(***************************************************************************)
MaxBeat == 2
Deltas == {<<dx, dy>> : dx \in {-1, 0, 1}, dy \in {-20, -1, 0, 1, 20}}

max(a, b) == IF a >= b THEN a ELSE b

\* self.value - isize::from(delta[1]): isize takes the try_neg_from path of
\* impl_arith!, as i16 does
sub_isize(value, k) == Note_sub(value, "i16", k)

\* NoteBlock::move: the block it leaves and its result
NoteBlock_move(blk, delta, meta) ==
    LET b1 == IF meta THEN [blk EXCEPT !.len = blk.len + delta[1]]
              ELSE [blk EXCEPT !.offset = max(0, blk.offset + delta[1])]
        value == sub_isize(b1.value, delta[2])
    IN  IF value.some THEN [block |-> [b1 EXCEPT !.value = value.v],
                            res |-> "Ok"]
        ELSE [block |-> b1, res |-> "Err"]

Move(delta, meta) ==
    LET r == NoteBlock_move(moved.block, delta, meta)
    IN  /\ r.block.offset <= MaxBeat
        /\ r.block.len \in 0 - MaxBeat .. MaxBeat
        /\ moved' = [block |-> r.block, before |-> moved.block,
                     delta |-> delta, meta |-> meta, res |-> r.res]
        /\ UNCHANGED except_moved

NextMove == \E delta \in Deltas, meta \in BOOLEAN : Move(delta, meta)

SpecMove == InitIdle /\ [][NextMove]_vars

\* C24: when moving a NoteBlock by a delta would take its pitch outside
\* 0..=35, the move fails and the block's offset, len and value are all
\* exactly what they were before the call.
C24_FailedMoveChangesNothing ==
    /\ moved.res = "Err" <=>
         (moved.res /= "init"
          /\ moved.before.value - moved.delta[2] \notin 0 .. 35)
    /\ moved.res = "Err" => moved.block = moved.before

\* the part of C24 the code meets: the move fails exactly when the pitch
\* would leave 0..=35, and a failed move leaves the pitch alone
FailedMoveKeepsValue ==
    /\ moved.res = "Err" <=>
         (moved.res /= "init"
          /\ moved.before.value - moved.delta[2] \notin 0 .. 35)
    /\ moved.res = "Err" => moved.block.value = moved.before.value

\* C33: after any sequence of moves of a NoteBlock, with or without the meta
\* modifier and with any deltas, its offset and its len are both >= 0.
C33_NoteBlockNonNegative ==
    moved.block.offset >= 0 /\ moved.block.len >= 0

\* the part of C33 the code meets: the offset of a NoteBlock stays >= 0
NoteBlockOffsetNonNegative == moved.block.offset >= 0

(***************************************************************************)
(* Pointer events and focus: EditorPlaneHandler::set_event, fed by the     *)
(* FocusPlane / HoverPlane / LeavePlane handlers, and the Focus / Unfocus  *)
(* arms of Main::update.  A pointer event carries the button state `left`  *)
(* and lies over the set `under` of blocks (components).                   *)
(***************************************************************************)
MaxBlocks == 3

BlockIds == 0 .. MaxBlocks - 1

Focus(kind, id) == [kind |-> kind, id |-> id]

Min(S) == CHOOSE x \in S : \A y \in S : x <= y

\* id_by_pos: position of the first block the point is in
id_by_pos(under) == IF under = {} THEN None ELSE Some(Min(under))

\* set_event(Some(event), ..) from the focus HoverPlane
hover_plane(e, left, under) ==
    LET id == id_by_pos(under)
    IN  IF left /\ ~id.some THEN [e EXCEPT !.focus = Focus("MovePlane", 0)]
        ELSE IF left THEN [e EXCEPT !.focus = Focus("MoveElement", id.v)]
        ELSE IF ~id.some THEN e
        ELSE [e EXCEPT !.focus = Focus("HoverElement", id.v)]

\* EditorPlaneHandler::set_event(Some(event), pattern)
set_event_some(e, left, under) ==
    CASE e.focus.kind = "None" -> [e EXCEPT !.focus = Focus("HoverPlane", 0)]
      [] e.focus.kind = "HoverPlane" -> hover_plane(e, left, under)
      [] e.focus.kind = "HoverElement" ->
            IF left THEN [e EXCEPT !.focus = Focus("MoveElement", e.focus.id)]
            ELSE IF e.focus.id \notin under
            THEN [e EXCEPT !.focus = Focus("HoverPlane", 0)]
            ELSE e
      [] e.focus.kind = "MovePlane" ->
            IF left THEN e ELSE [e EXCEPT !.focus = Focus("HoverPlane", 0)]
      [] e.focus.kind = "MoveElement" ->
            IF left THEN e
            ELSE [e EXCEPT !.focus = Focus("HoverElement", e.focus.id),
                           !.selected_id =
                               IF e.selected_id /= Some(e.focus.id)
                               THEN Some(e.focus.id) ELSE None]

\* EditorPlaneHandler::set_event(None, pattern)
set_event_none(e) == [e EXCEPT !.focus = Focus("None", 0)]

\* AppEvent::FocusPlane: set_pointer_capture, then the event is handled
FocusPlane(e, under) ==
    set_event_some([e EXCEPT !.captured = TRUE], TRUE, under)

\* MainCmd::Focus
Main_Focus(e, under) ==
    LET comp == id_by_pos(under)
    IN  [e EXCEPT !.main_captured = TRUE,
                  !.focused_comp = comp,
                  !.plane_moving = IF comp.some THEN e.plane_moving ELSE TRUE]

\* MainCmd::Unfocus
Main_Unfocus(e) ==
    [e EXCEPT !.main_captured = FALSE, !.plane_moving = FALSE,
              !.focused_comp = None]

\* primary button down over `under`
PointerDown(under) ==
    /\ ~editor.held
    /\ editor' = [Main_Focus(FocusPlane(editor, under), under)
                    EXCEPT !.held = TRUE, !.last = "down"]
    /\ UNCHANGED except_editor

\* a move over `under`, with the button as it is held
PointerMove(under) ==
    /\ editor' = [set_event_some(editor, editor.held, under)
                    EXCEPT !.last = "move"]
    /\ UNCHANGED except_editor

\* primary button up over `under`; the capture ends with it
PointerUp(under) ==
    /\ editor.held
    /\ editor' = [Main_Unfocus(set_event_some(editor, FALSE, under))
                    EXCEPT !.held = FALSE, !.captured = FALSE, !.last = "up"]
    /\ UNCHANGED except_editor

\* the pointer leaves the plane (not while the button holds the capture)
PointerLeave ==
    /\ ~editor.held
    /\ editor' = [set_event_none(editor) EXCEPT !.last = "leave"]
    /\ UNCHANGED except_editor

NextEditor ==
    \/ \E under \in SUBSET BlockIds : PointerDown(under)
    \/ \E under \in SUBSET BlockIds : PointerMove(under)
    \/ \E under \in SUBSET BlockIds : PointerUp(under)
    \/ PointerLeave

SpecEditor == InitIdle /\ [][NextEditor]_vars

\* C25: starting from Focus::None every sequence of pointer events leaves
\* the editor in exactly one defined Focus state, and in no reachable state
\* is the pointer captured while there is no focus owner (no focused
\* component / move state).
C25_CapturedHasOwner ==
    /\ editor.focus.kind \in {"None", "HoverPlane", "HoverElement",
                              "MovePlane", "MoveElement"}
    /\ editor.focus.kind \in {"HoverElement", "MoveElement"}
         => editor.focus.id \in BlockIds
    /\ editor.captured => editor.focus.kind \in {"MovePlane", "MoveElement"}
    /\ editor.main_captured => (editor.focused_comp.some \/ editor.plane_moving)

\* the part of C25 the code meets: the focus is always one of the five, and
\* Main has a focused component or moves the plane while it holds the capture
FocusDefined ==
    /\ editor.focus.kind \in {"None", "HoverPlane", "HoverElement",
                              "MovePlane", "MoveElement"}
    /\ editor.focus.kind \in {"HoverElement", "MoveElement"}
         => editor.focus.id \in BlockIds
    /\ editor.main_captured => (editor.focused_comp.some \/ editor.plane_moving)

(***************************************************************************)
(* on_redraw of the nested pattern editors (NoteBlock, CustomBlock): the   *)
(* playback cursor.  Times in tenths of a second or of a beat; the cursor  *)
(* position is kept in beats (canvas scale 1, editor offset 0).            *)
(***************************************************************************)
\* PlaybackContext::All(start), start finite or not, and the other variants
PlaybackAll(start) == [all |-> TRUE, finite |-> TRUE, start |-> start]
PlaybackAllInfinite == [all |-> TRUE, finite |-> FALSE, start |-> 0]
PlaybackOther == [all |-> FALSE, finite |-> TRUE, start |-> 0]

\* f64 %: the remainder has the sign of the dividend; none for a zero divisor
f64_rem(a, b) ==
    IF b = 0 THEN None
    ELSE IF a >= 0 THEN Some(a % b) ELSE Some(0 - ((0 - a) % b))

\* R64::new_or(default, x)
new_or(default, x) == IF x.some THEN x.v ELSE default

\* total_len of the two editors
note_total_len(points) == NoteSound_len(points)
custom_total_len(points, len) ==
    IF points = <<>> THEN 0
    ELSE points[Len(points)].offset
         + div_coef(len, pitch_coef(points[Len(points)].pitch))

before_end_started(progress, total_len, n_reps) ==
    progress >= 0 /\ progress < total_len * n_reps

\* progress < total_len * n_reps
before_end(progress, total_len, n_reps) == progress < total_len * n_reps

\* the playback part of on_redraw
on_redraw(v) ==
    LET len == secs_to_beats(v.len, v.bps)
        total_len == IF v.kind = "Note" THEN note_total_len(v.note)
                     ELSE custom_total_len(v.custom, len)
        progress == secs_to_beats(v.frame - v.playback.start, v.bps)
                    - v.sb_offset
        nothing == [cursor |-> FALSE, x |-> 0, force_redraw |-> FALSE]
    IN  IF v.playback.all /\ v.playback.finite
        THEN IF before_end(progress, total_len, v.n_reps)
             THEN [cursor |-> TRUE,
                   x |-> new_or(progress, f64_rem(progress, total_len)),
                   force_redraw |-> TRUE]
             ELSE nothing
        ELSE nothing

RedrawValues(field) ==
    CASE field = "kind" -> {"Note", "Custom"}
      [] field = "playback" ->
            {PlaybackOther, PlaybackAllInfinite, PlaybackAll(0),
             PlaybackAll(10)}
      [] field = "frame" -> {0, 5, 10, 20, 40}
      [] field = "bps" -> {1, 2}
      [] field = "sb_offset" -> {0, 10}
      [] field = "n_reps" -> 1 .. MaxRep
      [] field = "note" -> PlayPatterns
      [] field = "custom" -> CustomPatterns

\* something the redraw depends on changes
SetView(field, to) ==
    /\ to /= view[field]
    /\ view' = [view EXCEPT ![field] = to, !.step = "set",
                    !.out = [cursor |-> FALSE, x |-> 0,
                             force_redraw |-> FALSE]]
    /\ UNCHANGED except_view

Redraw ==
    /\ view.step /= "redraw"
    /\ view' = [view EXCEPT !.out = on_redraw(view), !.step = "redraw"]
    /\ UNCHANGED except_view

NextView ==
    \/ \E field \in {"kind", "playback", "frame", "bps", "sb_offset",
                     "n_reps", "note", "custom"} :
         \E to \in RedrawValues(field) : SetView(field, to)
    \/ Redraw

SpecView == InitIdle /\ [][NextView]_vars

\* the playhead and the length of the pattern, as the claim states them
Progress == (view.frame - view.playback.start) * view.bps - view.sb_offset

TotalLen ==
    IF view.kind = "Note"
    THEN IF view.note = <<>> THEN 0
         ELSE view.note[Len(view.note)].offset + view.note[Len(view.note)].len
    ELSE IF view.custom = <<>> THEN 0
         ELSE LET last == view.custom[Len(view.custom)]
                  octaves == (last.pitch - 18) \div 12
                  len == view.len * view.bps
              IN  last.offset + (IF octaves >= 0 THEN len \div exp2(octaves)
                                 ELSE len * exp2(0 - octaves))

\* C26 as stated: a redraw draws the cursor and calls force_redraw() exactly
\* when the playback context is All(start) and the progress lies within
\* [0, total_len * rep_count); before the block has started and after its
\* last repetition it does neither.
C26_CursorWithinPlay ==
    view.step = "redraw" =>
      LET within == /\ view.playback.all /\ view.playback.finite
                    /\ 0 <= Progress
                    /\ Progress < TotalLen * view.n_reps
      IN  /\ view.out.cursor = within
          /\ view.out.force_redraw = within

\* C26, amended: a redraw draws the cursor and calls force_redraw() exactly
\* when the playback context is All(start) with a finite start and the
\* progress is below total_len * rep_count; this includes the time before
\* the block has started (progress < 0), and only after the last repetition
\* has ended it does neither.  The cursor is drawn at progress % total_len.
C26_CursorUntilEnd ==
    view.step = "redraw" =>
      LET until == /\ view.playback.all /\ view.playback.finite
                   /\ Progress < TotalLen * view.n_reps
      IN  /\ view.out.cursor = until
          /\ view.out.force_redraw = until
          /\ (until /\ Progress >= 0)
               => view.out.x = Progress % TotalLen
          /\ (until /\ Progress < 0 /\ TotalLen > 0)
               => view.out.x = 0 - ((0 - Progress) % TotalLen)

\* a redraw before the block has started, and one in a later repetition
C26_Witness ==
    /\ view.step = "redraw"
    /\ view.out.cursor /\ view.out.force_redraw
    /\ Progress < 0
    /\ TotalLen > 0

C26_WitnessRepeated ==
    /\ view.step = "redraw"
    /\ view.out.cursor
    /\ Progress >= TotalLen
    /\ TotalLen > 0

(***************************************************************************)
(* Undo / Redo events reaching a Note or Custom sound and its nested       *)
(* pattern editor.  The editor itself is opaque: pat_handled counts the    *)
(* events handed to its handle_event.                                      *)
(***************************************************************************)
MaxReplays == 3
Tabs == 0 .. 2

\* if ctx.selected_tab() == 2 { pat.handle_event(event, ..)?; }
pattern_gets_event(selected_tab) == selected_tab = 2

\* NoteSound / CustomSound::handle_event for Undo and Redo: the parameters
\* afterwards and whether the pattern editor was handed the event
sound_replay(snd, ev, selected_tab) ==
    LET r == IF snd.kind = "Note" THEN NoteSound_handle_event(snd, ev)
             ELSE CustomSound_handle_event(snd, ev)
    IN  [snd |-> r.snd, forwarded |-> pattern_gets_event(selected_tab)]

\* the actions an Undo or Redo carries: of a parameter of the sound, or of
\* its pattern editor
ReplayActions ==
    {[kind |-> k, ty |-> "None", from |-> f, to |-> t] :
        k \in {"SetVolume", "SetRepCount"}, f \in 1 .. 2, t \in 1 .. 2}
    \cup {[kind |-> "PatternEdit", ty |-> "None", from |-> 0, to |-> 0]}

SelectTab(t) ==
    /\ t /= replay.selected_tab
    /\ replay' = [replay EXCEPT !.selected_tab = t,
                    !.last = [ev |-> "SetTab", kind |-> "None", from |-> 0,
                              to |-> 0, applied |-> FALSE,
                              forwarded |-> FALSE]]
    /\ UNCHANGED except_replay

ReplayKind(kind) ==
    /\ kind /= replay.snd.kind
    /\ replay' = [replay EXCEPT !.snd = SoundOfKind(kind),
                    !.last = [ev |-> "SetBlockType", kind |-> "None",
                              from |-> 0, to |-> 0, applied |-> FALSE,
                              forwarded |-> FALSE]]
    /\ UNCHANGED except_replay

\* AppEvent::Undo([a]) or AppEvent::Redo([a]) reaches the sound
Replay(type, a) ==
    LET ev == IF type = "Undo" THEN UndoEvent(<<a>>) ELSE RedoEvent(<<a>>)
        r == sound_replay(replay.snd, ev, replay.selected_tab)
        value == IF type = "Undo" THEN a.from ELSE a.to
    IN  /\ replay.pat_handled < MaxReplays
        /\ replay' = [replay EXCEPT
              !.snd = r.snd,
              !.pat_handled = IF r.forwarded THEN @ + 1 ELSE @,
              !.last = [ev |-> type, kind |-> a.kind, from |-> a.from,
                        to |-> a.to,
                        applied |-> (a.kind = "PatternEdit"
                                     \/ r.snd[ActionField[a.kind]] = value),
                        forwarded |-> r.forwarded]]
        /\ UNCHANGED except_replay

NextReplay ==
    \/ \E t \in Tabs : SelectTab(t)
    \/ \E kind \in {"Note", "Custom"} : ReplayKind(kind)
    \/ \E type \in {"Undo", "Redo"} :
         \E a \in ReplayActions : Replay(type, a)

SpecReplay == InitIdle /\ [][NextReplay]_vars

\* C27: each Undo or Redo event delivered to a Note or Custom sound is
\* applied to the sound's own parameters and is also forwarded to its nested
\* pattern editor, whichever tab is selected.
C27_ReplayReachesPattern ==
    replay.last.ev \in {"Undo", "Redo"} =>
      (replay.last.applied /\ replay.last.forwarded)

\* the part of C27 the code meets: the parameters are always replayed, and
\* the pattern editor is handed the event while tab 2 is selected
ReplayOnPatternTab ==
    replay.last.ev \in {"Undo", "Redo"} =>
      /\ replay.last.applied
      /\ replay.last.forwarded <=> replay.selected_tab = 2

\* C28: in the first Frame handled after every StartPlay, now_beats is 0 and
\* play_since is that frame's clock time, so exactly the events with
\* when <= 0 are drained in it, whatever happened before that StartPlay.
C28_FirstFrameAtZero ==
    [][(lastEv = "StartPlay" /\ lastEv' = "Frame") =>
         /\ frNow' = 0
         /\ play_since' = now'
         /\ \A i \in 1 .. Len(frBefore') :
              (when(frBefore'[i]) <= 0)
                <=> (\E j \in 1 .. Len(frPolled') :
                       frPolled'[j].prod = 0 /\ frPolled'[j].ev = frBefore'[i])
       ]_vars

\* the part of C28 the code meets: the first Frame of a play that follows a
\* StopPlay, or no play at all, is handled at now_beats = 0
FirstFrameAfterStop ==
    [][(lastEv = "StartPlay" /\ ~used_to_play /\ lastEv' = "Frame") =>
         (frNow' = 0 /\ play_since' = now')]_vars

\* ------------------------------------------- reorder with nothing to move
\* C29: reorder(i) of a sorted slice, whose element at i is therefore in a
\* sorted position already, leaves the slice as it was and returns the move
\* i -> i; reorder of an index that is not below the length fails with that
\* index and leaves the slice as it was.
C29_NothingToMove ==
    /\ (op = "reorder" /\ Sorted(prevData))
          => (data = prevData /\ mv.to = mv.from)
    /\ op = "reorder_err"
          => (data = prevData /\ mv.from >= Len(prevData))

\* no two elements of s are equal in the order
StrictlySorted(s) ==
    \A i, j \in 1..Len(s) : i < j => s[i].offset < s[j].offset

\* the same of a slice sorted with no equal elements
ReorderOfStrictlySorted ==
    (op = "reorder" /\ StrictlySorted(prevData))
        => (data = prevData /\ mv.to = mv.from)

\* ------------------------------------------------- get_var and get_var_mut
\* (packages/wavexp-utils/src/lib.rs)
\* the longest slice and the most ids asked of it at once
MaxSlice == 3
MaxIds == 3

\* <[usize]>::contains
contains(s, x) == \E i \in 1..Len(s) : s[i] = x

\* enum GetVarError {OutOfBounds(id, len), Overlap(id)}, and no error
NoError == [kind |-> "Ok", id |-> 0, len |-> 0]
OutOfBounds(id, n) == [kind |-> "OutOfBounds", id |-> id, len |-> n]
Overlap(id) == [kind |-> "Overlap", id |-> id, len |-> 0]

\* the loop of get_var over successors(ids.split_first(), ..): each id with
\* the ids after it, the first error returned
RECURSIVE get_var_loop(_, _)
get_var_loop(n, idxs) ==
    IF idxs = <<>> THEN NoError
    ELSE LET id == Head(idxs)
             rest == Tail(idxs)
         IN  IF id >= n THEN OutOfBounds(id, n)
             ELSE IF contains(rest, id) THEN Overlap(id)
             ELSE get_var_loop(n, rest)

\* a defect: no id is checked
get_var_unchecked(n, idxs, mutable) ==
    [kind |-> "Ok", mutable |-> mutable,
     refs |-> [i \in 1..Len(idxs) |-> idxs[i]], id |-> 0, len |-> 0]

\* SliceExt::get_var (mutable = FALSE) and SliceExt::get_var_mut (TRUE) on a
\* slice of n elements: Err of the loop, or Ok of base.add(id) for every id,
\* a reference being the index of the element it points to
get_var(n, idxs, mutable) ==
    LET e == get_var_loop(n, idxs)
    IN  IF e.kind # "Ok"
        THEN [kind |-> e.kind, mutable |-> mutable, refs |-> <<>>,
              id |-> e.id, len |-> e.len]
        ELSE [kind |-> "Ok", mutable |-> mutable,
              refs |-> [i \in 1..Len(idxs) |-> idxs[i]], id |-> 0, len |-> 0]

\* the slice gets another length; nothing of it is borrowed
SetSliceLen(n) ==
    /\ borrow.res.kind = "init"
    /\ n # borrow.len
    /\ borrow' = [borrow EXCEPT !.len = n]
    /\ UNCHANGED except_borrow

\* one more id is asked for
PushId(id) ==
    /\ borrow.res.kind = "init"
    /\ Len(borrow.ids) < MaxIds
    /\ borrow' = [borrow EXCEPT !.ids = Append(@, id)]
    /\ UNCHANGED except_borrow

\* slice.get_var(&ids)
GetVar ==
    /\ borrow.res.kind = "init"
    /\ borrow' = [borrow EXCEPT !.res = get_var(borrow.len, borrow.ids, FALSE)]
    /\ UNCHANGED except_borrow

\* slice.get_var_mut(&ids)
GetVarMut ==
    /\ borrow.res.kind = "init"
    /\ borrow' = [borrow EXCEPT !.res = get_var(borrow.len, borrow.ids, TRUE)]
    /\ UNCHANGED except_borrow

\* the result and the ids are dropped, which ends the borrow of the slice
DropResult ==
    /\ borrow.res.kind # "init"
    /\ borrow' = [borrow EXCEPT
           !.ids = <<>>,
           !.res = [kind |-> "init", mutable |-> FALSE, refs |-> <<>>,
                    id |-> 0, len |-> 0]]
    /\ UNCHANGED except_borrow

NextBorrow ==
    \/ \E n \in 0..MaxSlice : SetSliceLen(n)
    \/ \E id \in 0..MaxSlice : PushId(id)
    \/ GetVar
    \/ GetVarMut
    \/ DropResult

SpecBorrow == InitIdle /\ [][NextBorrow]_vars

\* the id at the 1-based position k of idxs is not an element of a slice of
\* n elements, or occurs again after k
Offending(n, idxs, k) ==
    \/ idxs[k] >= n
    \/ \E j \in k + 1..Len(idxs) : idxs[j] = idxs[k]

\* the 1-based position of the first offending id of idxs
FirstOffending(n, idxs) ==
    CHOOSE k \in 1..Len(idxs) :
        /\ Offending(n, idxs, k)
        /\ \A j \in 1..k - 1 : ~Offending(n, idxs, j)

\* C30: get_var(ids) and get_var_mut(ids) return Ok exactly when every id is
\* below the length and none occurs twice, with one reference per id in the
\* order of ids (so no two references, mutable ones included, point to the
\* same element); otherwise they return the error of the first offending id
\* in the order of ids: OutOfBounds(id, len) when it is not below the length,
\* else Overlap(id).
C30_GetVar ==
    borrow.res.kind # "init" =>
        LET n == borrow.len
            idxs == borrow.ids
            res == borrow.res
            valid == /\ \A i \in 1..Len(idxs) : idxs[i] < n
                     /\ \A i, j \in 1..Len(idxs) : i # j => idxs[i] # idxs[j]
        IN  /\ res.kind = "Ok" <=> valid
            /\ res.kind = "Ok" =>
                   /\ Len(res.refs) = Len(idxs)
                   /\ \A i \in 1..Len(idxs) : res.refs[i] = idxs[i]
                   /\ \A i, j \in 1..Len(res.refs) :
                          i # j => res.refs[i] # res.refs[j]
            /\ ~valid =>
                   LET id == idxs[FirstOffending(n, idxs)]
                   IN  IF id >= n
                       THEN res.kind = "OutOfBounds" /\ res.id = id /\ res.len = n
                       ELSE res.kind = "Overlap" /\ res.id = id

\* get_var_mut was asked for an id twice after an id that is out of bounds
\* came later in ids, and has answered with the overlap
C30_Witness ==
    /\ borrow.res.kind = "Overlap"
    /\ borrow.res.mutable
    /\ \E k \in 1..Len(borrow.ids) : borrow.ids[k] >= borrow.len

\* get_var_mut has returned two references to different elements
C30_WitnessOk ==
    /\ borrow.res.kind = "Ok"
    /\ borrow.res.mutable
    /\ Len(borrow.res.refs) >= 2

\* ------------------------------------------------------- RangeExt::overlap
\* (packages/wavexp-utils/src/lib.rs)
\* the largest bound of a range
MaxPoint == 3

\* Range::contains of the standard library: start <= x < end
Range_contains(r, x) == r.start <= x /\ x < r.end

\* RangeExt::overlap
overlap(self, other) ==
    \/ Range_contains(self, other.start)
    \/ Range_contains(self, other.end)
    \/ Range_contains(other, self.start)

\* one bound of one of the two ranges is set; an answer given before is of
\* other ranges and is dropped
SetBound(which, field, v) ==
    /\ ranges[which][field] # v
    /\ ranges' = [ranges EXCEPT ![which][field] = v, !.res = "init"]
    /\ UNCHANGED except_ranges

\* a.overlap(&b)
CallOverlap ==
    /\ ranges.res = "init"
    /\ ranges' = [ranges EXCEPT
           !.res = IF overlap(ranges.a, ranges.b) THEN "true" ELSE "false"]
    /\ UNCHANGED except_ranges

NextRanges ==
    \/ \E which \in {"a", "b"}, field \in {"start", "end"}, v \in 0..MaxPoint :
           SetBound(which, field, v)
    \/ CallOverlap

SpecRanges == InitIdle /\ [][NextRanges]_vars

\* the half-open ranges r and q have a point in common
Common(r, q) ==
    /\ (IF r.start > q.start THEN r.start ELSE q.start)
           < (IF r.end < q.end THEN r.end ELSE q.end)

\* C31: for half-open ranges a and b that are not empty, a.overlap(&b) is
\* true exactly when a and b have a point in common (so not when they merely
\* touch), and b.overlap(&a) gives the same answer.
C31_OverlapIsCommonPoint ==
    (/\ ranges.res # "init"
     /\ ranges.a.start < ranges.a.end
     /\ ranges.b.start < ranges.b.end) =>
        /\ ranges.res = "true" <=> Common(ranges.a, ranges.b)
        /\ overlap(ranges.b, ranges.a) <=> ranges.res = "true"

\* the answer is right whenever the receiver is not empty and the other
\* range does not end inside the receiver at its start
OverlapWhenNotTouchedFromBelow ==
    (/\ ranges.res # "init"
     /\ ranges.a.start < ranges.a.end
     /\ ranges.b.start < ranges.b.end
     /\ ranges.b.end # ranges.a.start)
        => (ranges.res = "true" <=> Common(ranges.a, ranges.b))

\* ------------------------------------------ EveryNth and EveryNthMut
\* (packages/wavexp-utils/src/lib.rs)
\* the longest slice iterated over and the largest stride
MaxNthLen == 5
MaxN == 3

\* <[T]>::get / get_mut on a slice of `length` elements: an element is the
\* index it has in the slice
slice_get(length, i) == IF i < length THEN Some(i) ELSE None

\* a defect: the next offset is started without the stride added to `state`
every_nth_next_stuck(it) ==
    LET res == slice_get(it.len, it.state)
    IN  IF res.some
        THEN [it |-> [it EXCEPT !.state = it.state + it.n], item |-> res]
        ELSE LET off == it.off + 1
             IN  IF off = it.n
                 THEN [it |-> [it EXCEPT !.off = off], item |-> None]
                 ELSE [it |-> [it EXCEPT !.off = off, !.state = off],
                       item |-> slice_get(it.len, off)]

\* EveryNth::next and EveryNthMut::next, which differ in the kind of the
\* reference only: the iterator after the call and the item returned
every_nth_next(it) ==
    LET res == slice_get(it.len, it.state)
    IN  IF res.some
        THEN [it |-> [it EXCEPT !.state = it.state + it.n], item |-> res]
        ELSE LET off == it.off + 1
             IN  IF off = it.n
                 THEN [it |-> [it EXCEPT !.off = off], item |-> None]
                 ELSE [it |-> [it EXCEPT !.off = off, !.state = off + it.n],
                       item |-> slice_get(it.len, (off + it.n) - it.n)]

\* ToEveryNth::every_nth (mutable = FALSE) and every_nth_mut (TRUE) on a
\* slice of `length` elements
every_nth(length, n, mutable) ==
    [len |-> length, n |-> n, state |-> 0, off |-> 0, mutable |-> mutable,
     out |-> <<>>, done |-> FALSE]

\* slice.every_nth(n) or slice.every_nth_mut(n), once the iteration before
\* has ended
EveryNth(length, n, mutable) ==
    /\ nth.done
    /\ nth' = every_nth(length, n, mutable)
    /\ UNCHANGED except_nth

\* one step of collect() or of a for loop: next() is called and the item
\* kept; None ends the iteration
NthNext ==
    /\ ~nth.done
    /\ LET r == every_nth_next(nth)
       IN  nth' = IF r.item.some
                  THEN [r.it EXCEPT !.out = Append(nth.out, r.item.v)]
                  ELSE [r.it EXCEPT !.done = TRUE]
    /\ UNCHANGED except_nth

NextNth ==
    \/ \E length \in 0..MaxNthLen, n \in 1..MaxN, mutable \in BOOLEAN :
           EveryNth(length, n, mutable)
    \/ NthNext

SpecNth == InitIdle /\ [][NextNth]_vars

\* the place of the index i in the strided order of 0..length-1: after the
\* indices of a smaller remainder by n and the smaller ones of its own
StridedPos(length, n, i) ==
    Cardinality({j \in 0..length - 1 :
                    \/ j % n < i % n
                    \/ j % n = i % n /\ j < i})

\* C32: every_nth(n) and every_nth_mut(n) with n >= 1 yield the elements of
\* the slice in strided order (0, n, 2n, .., then 1, 1 + n, ..), each once,
\* and have yielded all of them when they end.
C32_StridedOrder ==
    /\ \A k \in 1..Len(nth.out) :
           /\ nth.out[k] \in 0..nth.len - 1
           /\ StridedPos(nth.len, nth.n, nth.out[k]) = k - 1
    /\ nth.done => Len(nth.out) = nth.len

\* every_nth_mut(3) over five elements has ended
C32_Witness ==
    /\ nth.done
    /\ nth.mutable
    /\ nth.out = <<0, 3, 1, 4, 2>>

\* ---------------------------------------------- CustomBlock::move_point
\* (packages/wavexp/src/sound/custom.rs), offsets in whole beats
\* CustomBlock::move_point(Ok(p), delta, _): `p.pitch -= ..` is the
\* SubAssign<isize> of Note
CustomBlock_move_point(p, delta) ==
    [offset |-> p.offset + delta[1], pitch |-> old_sub(p.pitch, delta[2])]

\* the editor moves the block by a delta
CustomMove(delta) ==
    LET p == CustomBlock_move_point(cblock, delta)
    IN  /\ p.offset \in 0 - MaxBeat .. MaxBeat
        /\ cblock' = p
        /\ UNCHANGED except_cblock

NextCustomMove == \E delta \in Deltas : CustomMove(delta)

SpecCustomMove == InitIdle /\ [][NextCustomMove]_vars

\* C34: after any sequence of moves of a CustomBlock, with any deltas, its
\* offset is >= 0.
C34_CustomBlockNonNegative == cblock.offset >= 0

\* the pitch of a moved CustomBlock stays an index of 0..=36
CustomBlockPitchInRange == cblock.pitch \in 0 .. Old_N_NOTES

\* -------------------------------------- blocks added while events are pending
\* (src/src/sound.rs) the sequencer of an empty project, to which blocks are
\* added at whole beats
MaxAdd == 2
MaxOffset == 1

\* the sounds a block is given by SetBlockType and the edits of its pattern:
\* Sound::new(SoundType::Noise), and a Note sound of one block
SoundChoices == {SoundNoise(1), SoundNote(<<NoteBlock(0, 1)>>)}

\* all of the sequencer but its pattern
seqButPattern ==
    <<pending, playing, used_to_play, plug, linked, conns, now, play_since,
      nPlays, nextNode, lastEv, frNow, frBefore, frPolled, frDue, frErr,
      prevPlug, ub>>

\* AppEvent::Add(layer, offset): self.pattern.add_point(SoundBlock{sound:
\* Sound::default(), layer, offset})
Add(offset) ==
    /\ Len(pattern) < MaxAdd
    /\ LET r == add_point(pattern, SoundBlock(SoundNone, offset))
       IN  /\ pattern' = r.s
           /\ blockIds' = insert(blockIds, r.id, Len(pattern) + 1)
    /\ UNCHANGED <<seqButPattern, sliceVars, editVars, popupVars, inputVars,
                   noteVars, playVars, custom, app, moved, editor, view, replay,
                   borrow, ranges, nth, cblock, bakeLen>>

\* AppEvent::SetBlockType on the block `id`, whose sound is Sound::None
SetSoundOf(id, snd) ==
    /\ id < Len(pattern)
    /\ At(pattern, id).sound = SoundNone
    /\ pattern' = [pattern EXCEPT ![id + 1].sound = snd]
    /\ UNCHANGED <<seqButPattern, sliceVars, laterVars>>

NextAdd ==
    \/ \E offset \in 0..MaxOffset : Add(offset)
    \/ \E id \in 0..MaxAdd - 1, snd \in SoundChoices : SetSoundOf(id, snd)
    \/ \E g \in Garbage : StartPlay(g) /\ UNCHANGED <<sliceVars, laterVars>>
    \/ \E t \in 0..MaxTime, g \in Garbage :
           Frame(t, g) /\ UNCHANGED <<sliceVars, laterVars>>

SpecAdd == InitIdle /\ [][NextAdd]_vars

\* C35: the id of every pending event is an index into the pattern, and no
\* step makes the id of an event that stays pending designate another block
\* than before: events are enqueued with the id of the block that was reset
\* or polled, so each keeps designating the block that emitted it.
C35_PendingTargetsEmitter ==
    [][/\ \A i \in 1..Len(pending) : target(pending[i]) < Len(pattern)
       /\ \A i \in 1..Len(pending) :
              (\E j \in 1..Len(pending') : pending'[j] = pending[i])
                  => At(blockIds', target(pending[i]))
                         = At(blockIds, target(pending[i]))]_vars

\* the id of every pending event is an index into the pattern
PendingTargetsInRange ==
    \A i \in 1..Len(pending) : target(pending[i]) < Len(pattern)

\* ------------------------------------------------- the order of `pending`
\* C36: in every state of the sequencer `pending` is in non-decreasing order
\* of `when`, and so no event that a Frame of a running play left behind the
\* prefix it drained was due.
C36_PendingSortedByWhen ==
    /\ \A i \in 1..Len(pending) - 1 : when(pending[i]) <= when(pending[i + 1])
    /\ (lastEv = "Frame" /\ playing) =>
           \A i \in n_due(frBefore, frNow) + 1..Len(frBefore) :
               when(frBefore[i]) > frNow

\* a Frame has put an event it produced in front of one it had left pending
C36_Witness ==
    /\ lastEv = "Frame" /\ playing
    /\ \E i, j \in 1..Len(pending) :
           /\ i < j
           /\ \A k \in 1..Len(frBefore) : frBefore[k] # pending[i]
           /\ \E k \in 1..Len(frBefore) : frBefore[k] = pending[j]

\* ------------------------------------------------- the loops of a Frame
\* patterns whose note blocks have equal offsets and lengths that are zero
\* or negative, so that events are due as soon as they are produced
TermPatterns ==
    { <<SoundBlock(SoundNote(<<NoteBlock(0, 0 - 5), NoteBlock(0, 0),
                               NoteBlock(0, 1)>>), 0)>>,
      <<SoundBlock(SoundNote(<<NoteBlock(1, 0 - 3), NoteBlock(1, 0 - 3)>>), 0),
        SoundBlock(SoundNoise(0), 0)>>,
      <<SoundBlock(SoundNote(<<>>), 0), SoundBlock(SoundNoise(1), 1)>> }

InitTerm == pattern \in TermPatterns /\ InitSeqFields /\ InitSlice /\ InitLater

SpecTerm == InitTerm /\ [][Next]_vars

\* the most polls an event drained from `pending` can lead to within one
\* Frame: a BlockStart in state s those of the blocks from s on and of their
\* BlockEnds, a Start itself and its Stop, any other event itself
PollBound(e) ==
    CASE e.type = "BlockStart" ->
             2 * max(1, Len(At(pattern, target(e)).sound.notes) - e.state)
      [] e.type = "Start" -> 2
      [] OTHER -> 1

RECURSIVE SumPollBound(_)
SumPollBound(log) ==
    IF log = <<>> THEN 0
    ELSE PollBound(Head(log).ev) + SumPollBound(Tail(log))

\* C37: a Frame returns after finitely many polls, whatever the offsets and
\* lengths of the note blocks: every event it drains leads to at most as
\* many polls as its sound has blocks left to start and to end.
C37_FramePollsBounded ==
    lastEv = "Frame" => Len(frPolled) <= SumPollBound(Roots(frPolled))

\* a Frame has polled, besides an event it drained, four events that were
\* due as soon as they were produced
C37_Witness ==
    /\ lastEv = "Frame" /\ playing
    /\ Len(Roots(frPolled)) = 1
    /\ Len(Nested(frPolled)) >= 4

\* ------------------------------------------- unchecked reads of a pattern
\* C38: StartPlay and Frame never read a block of an empty pattern: no
\* first_unchecked of Sound::reset and no get_unchecked of Sound::poll reads
\* outside the pattern of a Note sound, an empty one included.
C38_NoReadOfEmptyPattern == ~ub

\* an unchecked read outside a pattern happens only in a sequencer that has
\* a Note sound with an empty pattern
ReadOutsideOnlyOfEmpty ==
    ub => \E id \in 0..Len(pattern) - 1 :
              /\ At(pattern, id).sound.type = "Note"
              /\ At(pattern, id).sound.notes = <<>>

\* ------------------------------------------ the variant of a block's sound
\* a SetBlockType event and a Redo of SetBlockType, of any type, leave the
\* sound snd as it is
IgnoresSetBlockType(snd) ==
    \A ty \in SoundTypes :
        /\ Sound_handle_event(snd, SetBlockTypeEvent(ty)).snd = snd
        /\ Sound_handle_event(snd, RedoEvent(<<SetBlockTypeAction(ty)>>)).snd
               = snd

C40_LengthNeverWraps ==
    (bakeLast \in {"Ok", "Err"} /\ bakeLen.computed) =>
        LET ch == input.pending_changes
            length == Len(input.raw[1]) - ch.cut_start - ch.cut_end
        IN  /\ ~bakeLen.panic
            /\ bakeLen.value = length
            /\ length < 0 => (bakeLast = "Err" /\ baked(input) = "None")

\* the part of C40 the code meets: cuts within the raw buffer give the exact
\* difference, and a bake whose cuts exceed the raw length never succeeds
LengthExactWithinRaw ==
    (bakeLast \in {"Ok", "Err"} /\ bakeLen.computed) =>
        LET ch == input.pending_changes
            length == Len(input.raw[1]) - ch.cut_start - ch.cut_end
        IN  /\ length >= 0 => (~bakeLen.panic /\ bakeLen.value = length)
            /\ length < 0 => bakeLast # "Ok"

====
